---------------------------- MODULE Spec2Model ----------------------------
(***************************************************************************)
(* Verification model of the document chunker (src/utils/chunker.ts) and   *)
(* of the rank fusion of the Pinecone service (services/pinecone/rerank).  *)
(*                                                                         *)
(* A string is a sequence of one-character strings, so that length, trim,  *)
(* the sentence regular expression and the whitespace split are computed   *)
(* character by character, as the JavaScript engine computes them.         *)
(***************************************************************************)
EXTENDS Integers, Sequences, FiniteSets, TLC

(* ------------------------------ bounds --------------------------------- *)

\* longest item sequence handed to the chunking loop
MaxItems == 3
\* the longest item sequence made of headings only
MaxHeadings == 5
\* most text nodes of a document handed to extractItemsInOrder
MaxTexts == 2
\* most child references of the body of such a document
MaxBodyRefs == 2
\* longest result list handed to reciprocalRankFusion
MaxResults == 3

\* all sequences over S of length at most n
SeqUpTo(S, n) == UNION {[1..k -> S] : k \in 0..n}

(* ------------------------------ strings -------------------------------- *)

\* characters JavaScript's \s and trim() treat as whitespace
WS == {" ", "\n"}
\* the sentence terminators of the regular expression in splitAtSentences
Terminators == {".", "!", "?"}

Min(S) == CHOOSE x \in S : \A y \in S : x <= y

\* index of the first character at or after `from` that is in S, Len(s)+1 if none
FirstIn(s, from, S) ==
  LET c == {i \in from..Len(s) : s[i] \in S}
  IN IF c = {} THEN Len(s) + 1 ELSE Min(c)

\* index of the first character at or after `from` that is not in S
FirstNotIn(s, from, S) ==
  LET c == {i \in from..Len(s) : s[i] \notin S}
  IN IF c = {} THEN Len(s) + 1 ELSE Min(c)

\* String.prototype.trim
trim(s) ==
  LET a == FirstNotIn(s, 1, WS)
      nonWs == {i \in 1..Len(s) : s[i] \notin WS}
  IN IF nonWs = {} THEN <<>>
     ELSE SubSeq(s, a, CHOOSE i \in nonWs : \A j \in nonWs : j <= i)

RECURSIVE matchSentences(_)
\* text.match(/[^.!?]+[.!?]+\s*/g): the successive leftmost matches. A match
\* starts at a non-terminator, takes the whole run of non-terminators, needs
\* at least one terminator after it, and then takes the terminators and the
\* whitespace that follow. A run that reaches the end of the text without a
\* terminator matches nowhere, and neither does anything after it.
matchSentences(s) ==
  LET i == FirstNotIn(s, 1, Terminators)
      j == FirstIn(s, i, Terminators)
      k == FirstNotIn(s, j, Terminators)
      m == FirstNotIn(s, k, WS)
  IN IF i > Len(s) \/ j > Len(s) THEN <<>>
     ELSE <<SubSeq(s, i, m - 1)>> \o matchSentences(SubSeq(s, m, Len(s)))

RECURSIVE splitWs(_)
\* chunk.split(/\s+/): the pieces between maximal whitespace runs; a leading
\* or trailing run leaves an empty piece, and "" splits into [""]
splitWs(s) ==
  LET i == FirstIn(s, 1, WS)
      m == FirstNotIn(s, i, WS)
  IN IF i > Len(s) THEN <<s>>
     ELSE <<SubSeq(s, 1, i - 1)>> \o splitWs(SubSeq(s, m, Len(s)))

RECURSIVE packSentences(_, _, _, _)
\* the loop over sentences of splitAtSentences; returns the chunks pushed in
\* the loop and the currentChunk left when it ends
packSentences(sentences, maxSize, chunks, currentChunk) ==
  IF sentences = <<>> THEN [chunks |-> chunks, currentChunk |-> currentChunk]
  ELSE LET sentence == Head(sentences)
       IN IF Len(currentChunk) + Len(sentence) > maxSize /\ currentChunk # <<>>
          THEN packSentences(Tail(sentences), maxSize,
                             Append(chunks, trim(currentChunk)), sentence)
          ELSE packSentences(Tail(sentences), maxSize,
                             chunks, currentChunk \o sentence)

RECURSIVE packWords(_, _, _, _)
\* the loop over the words of one oversized chunk in splitAtSentences
packWords(words, maxSize, result, current) ==
  IF words = <<>>
  THEN IF current # <<>> THEN Append(result, trim(current)) ELSE result
  ELSE LET word == Head(words)
       IN IF Len(current) + Len(word) + 1 > maxSize /\ current # <<>>
          THEN packWords(Tail(words), maxSize,
                         Append(result, trim(current)), word)
          ELSE packWords(Tail(words), maxSize, result,
                         current \o (IF current # <<>> THEN <<" ">> ELSE <<>>) \o word)

RECURSIVE splitLarge(_, _)
\* the second loop of splitAtSentences: chunks still over maxSize are split
\* by words, the others are kept
splitLarge(chunks, maxSize) ==
  IF chunks = <<>> THEN <<>>
  ELSE LET chunk == Head(chunks)
       IN (IF Len(chunk) > maxSize
           THEN packWords(splitWs(chunk), maxSize, <<>>, <<>>)
           ELSE <<chunk>>) \o splitLarge(Tail(chunks), maxSize)

splitAtSentences(text, maxSize) ==
  IF Len(text) <= maxSize THEN <<text>>
  ELSE LET matched == matchSentences(text)
           sentences == IF matched = <<>> THEN <<text>> ELSE matched
           packed == packSentences(sentences, maxSize, <<>>, <<>>)
           chunks == IF trim(packed.currentChunk) # <<>>
                     THEN Append(packed.chunks, trim(packed.currentChunk))
                     ELSE packed.chunks
       IN splitLarge(chunks, maxSize)


(* --------------------------- content items ----------------------------- *)

\* labels of the input universe that contain the substring "heading"
ContainsHeading == {"subheading"}

isHeading(label) ==
  \/ label = "section_header"
  \/ label = "title"
  \/ label = "chapter"
  \/ label \in ContainsHeading

\* A table of the parsed document: hasCells is FALSE when data.table_cells is
\* absent; a cell is [text, row, col] (start_row_offset_idx, start_col_offset_idx).
Cell(t, r, c) == [col |-> c, row |-> r, text |-> t]

RECURSIVE JoinWith(_, _)
\* Array.prototype.join(sep) of a sequence of strings
JoinWith(ss, sep) ==
  IF ss = <<>> THEN <<>>
  ELSE IF Len(ss) = 1 THEN ss[1]
  ELSE ss[1] \o sep \o JoinWith(Tail(ss), sep)

\* the cell text the grid holds at (r, c) after the loop over cells: the last
\* cell written there, "" if none (rows and columns are 0-based offsets)
GridAt(cells, r, c) ==
  LET at == {i \in 1..Len(cells) : cells[i].row = r /\ cells[i].col = c}
  IN IF at = {} THEN <<>>
     ELSE cells[CHOOSE i \in at : \A j \in at : j <= i].text

tableToText(table) ==
  IF ~table.hasCells THEN <<"[", "T", "a", "b", "l", "e", "]">>
  ELSE IF table.num_rows = 0 \/ table.num_cols = 0
  THEN JoinWith([i \in 1..Len(table.cells) |-> table.cells[i].text],
                <<" ", "|", " ">>)
  ELSE JoinWith([r \in 1..table.num_rows |->
                   JoinWith([c \in 1..table.num_cols |->
                               GridAt(table.cells, r - 1, c - 1)],
                            <<" ", "|", " ">>)],
                <<"\n">>)

\* the tables of the input universe: no cell data, no cells, a 1x1 grid with
\* an empty cell, a 1x1 grid with a cell and one more outside the grid, and a
\* 2x1 grid
Tables ==
  { [cells |-> <<>>, hasCells |-> FALSE, num_cols |-> 0, num_rows |-> 0],
    [cells |-> <<>>, hasCells |-> TRUE, num_cols |-> 0, num_rows |-> 0],
    [cells |-> <<Cell(<<>>, 0, 0)>>, hasCells |-> TRUE, num_cols |-> 1,
     num_rows |-> 1],
    [cells |-> <<Cell(<<"c">>, 0, 0), Cell(<<"d">>, 1, 0)>>,
     hasCells |-> TRUE, num_cols |-> 1, num_rows |-> 1],
    [cells |-> <<Cell(<<"c">>, 0, 0), Cell(<<"d">>, 1, 0)>>,
     hasCells |-> TRUE, num_cols |-> 1, num_rows |-> 2] }

\* the texts of the body items of the input universe
BodyTexts ==
  { <<>>,
    <<"a">>,
    <<"a", "a", "a">>,
    <<"a", ".", "a">>,
    <<"a", " ", "a">>,
    <<"a", ".", " ", "a", ".">> }

\* DocItem as extractItemsInOrder builds it (ref is not read by the chunker)
TextItem(text, label) ==
  [isHeading |-> isHeading(label), label |-> label, text |-> text]

TableItem(table) ==
  [isHeading |-> FALSE, label |-> "table", text |-> tableToText(table)]

HeadingItems ==
  { TextItem(<<"h">>, "section_header"), TextItem(<<"g">>, "subheading"),
    TextItem(<<"t">>, "title"), TextItem(<<"c">>, "chapter") }

BodyItems == {TextItem(t, "paragraph") : t \in BodyTexts}

TableItems == {TableItem(t) : t \in Tables}

Items == HeadingItems \cup BodyItems \cup TableItems

\* the chunk options of the input universe
ChunkOptions ==
  [maxChunkSize : {2, 6}, minChunkSize : {1, 4}]

(* ------------------------- extractItemsInOrder ------------------------- *)

\* A reference string "#/<type>/<digits>" is the pair of its two parts; an
\* empty digit string stands for a string the pattern of parseRef rejects.
Ref(type, digits) == [digits |-> digits, type |-> type]

RECURSIVE parseInt(_)
\* parseInt(digits, 10) of a non-empty digit string
parseInt(digits) ==
  IF Len(digits) = 1 THEN digits[1]
  ELSE 10 * parseInt(SubSeq(digits, 1, Len(digits) - 1)) + digits[Len(digits)]

Null == [type |-> "null"]

parseRef(ref) ==
  IF ref.digits = <<>> THEN Null
  ELSE [index |-> parseInt(ref.digits), type |-> ref.type]

\* DocItem as extractItemsInOrder builds it
DocItem(text, label, ref) ==
  [isHeading |-> isHeading(label), label |-> label, ref |-> ref, text |-> text]

\* self_ref of the node stored at 0-based position idx of a collection
SelfRef(type, idx) == Ref(type, <<idx>>)

RECURSIVE processRef(_, _, _)
RECURSIVE processRefs(_, _, _)
\* processRef(ref) on the closure state st = [items, visited]
processRef(d, ref, st) ==
  IF ref \in st.visited THEN st
  ELSE LET st1 == [st EXCEPT !.visited = @ \cup {ref}]
           parsed == parseRef(ref)
       IN IF parsed = Null THEN st1
          ELSE IF parsed.type = "texts" /\ parsed.index < Len(d.texts)
          THEN LET textItem == d.texts[parsed.index + 1]
               IN processRefs(d, textItem.children,
                              [st1 EXCEPT !.items =
                                 Append(@, DocItem(textItem.text, textItem.label, ref))])
          ELSE IF parsed.type = "tables" /\ parsed.index < Len(d.tables)
          THEN [st1 EXCEPT !.items =
                  Append(@, DocItem(tableToText(d.tables[parsed.index + 1]),
                                    "table", ref))]
          ELSE st1

\* the loops `for (const child of ...) processRef(child.$ref)`
processRefs(d, refs, st) ==
  IF refs = <<>> THEN st
  ELSE processRefs(d, Tail(refs), processRef(d, Head(refs), st))

\* the linear pass over doc.texts and then doc.tables
linearOrder(d) ==
  [i \in 1..Len(d.texts) |->
     DocItem(d.texts[i].text, d.texts[i].label, SelfRef("texts", i - 1))]
  \o [i \in 1..Len(d.tables) |->
        DocItem(tableToText(d.tables[i]), "table", SelfRef("tables", i - 1))]

\* mutant of extractItemsInOrder: the linear pass also runs after a traversal
\* that reached fewer items than the collections hold
extractItemsInOrderTopUp(d) ==
  LET walked == processRefs(d, d.body, [items |-> <<>>, visited |-> {}]).items
  IN IF Len(walked) < Len(d.texts) + Len(d.tables)
     THEN walked \o linearOrder(d) ELSE walked

extractItemsInOrder(d) ==
  LET walked == processRefs(d, d.body, [items |-> <<>>, visited |-> {}]).items
  IN IF Len(walked) = 0 THEN linearOrder(d) ELSE walked

\* the references of the input universe: "#/texts/0", "#/texts/1",
\* "#/texts/00", "#/tables/0", "#/groups/0" and a string that is no pointer
DocRefs ==
  { Ref("texts", <<0>>), Ref("texts", <<1>>), Ref("texts", <<0, 0>>),
    Ref("tables", <<0>>), Ref("groups", <<0>>), Ref("texts", <<>>) }

\* the text nodes of the input universe: a paragraph with at most one child
\* reference, or a title
TextNodes ==
  {[children |-> c, label |-> "paragraph", text |-> <<"a">>] :
      c \in SeqUpTo(DocRefs, 1)}
  \cup {[children |-> <<>>, label |-> "title", text |-> <<"t">>]}

\* the documents of the input universe (body is doc.body.children, empty
\* when the document has no body)
Docs ==
  [body : SeqUpTo(DocRefs, MaxBodyRefs),
   tables : SeqUpTo({[cells |-> <<Cell(<<"c">>, 0, 0)>>, hasCells |-> TRUE, num_cols |-> 1,
                      num_rows |-> 1]}, 1),
   texts : SeqUpTo(TextNodes, MaxTexts)]

NoDoc == [body |-> <<>>, tables |-> <<>>, texts |-> <<>>]

(* ------------------------ reciprocalRankFusion ------------------------- *)

RECURSIVE Product(_, _)
Product(lo, hi) == IF lo > hi THEN 1 ELSE lo * Product(lo + 1, hi)

\* Fused scores are exact rationals, written as whole numbers of the unit
\* 1 / ScoreUnit(k); every 1 / (k + rank + 1) of a list of at most MaxResults
\* results is a whole number of units.
ScoreUnit(k) == Product(k + 1, k + MaxResults)

\* mutant of rrfScore: the rank is left out of the denominator
rrfScoreNoRank(k, rank) == ScoreUnit(k) \div (k + 1)

\* 1 / (k + rank + 1), in units
rrfScore(k, rank) == ScoreUnit(k) \div (k + rank + 1)

\* position in scoreMap of the entry of id, 0 if it has none (Map.get)
MapGet(scoreMap, id) ==
  LET at == {i \in 1..Len(scoreMap) : scoreMap[i].id = id}
  IN IF at = {} THEN 0 ELSE CHOOSE i \in at : TRUE

\* mutant of scoreResult: a later occurrence of an id replaces the score the
\* id has instead of adding to it
scoreResultOverwrite(result, rank, source, k, scoreMap) ==
  LET existing == MapGet(scoreMap, result.id)
  IN IF existing # 0
     THEN [scoreMap EXCEPT ![existing].score = rrfScore(k, rank),
                           ![existing].sources = @ \cup {source}]
     ELSE Append(scoreMap, [id |-> result.id, metadata |-> result.metadata,
                            score |-> rrfScore(k, rank), sources |-> {source}])

\* mutant of scoreResult: the score of the input result is accumulated
\* instead of the reciprocal of its rank
scoreResultByScore(result, rank, source, k, scoreMap) ==
  LET existing == MapGet(scoreMap, result.id)
  IN IF existing # 0
     THEN [scoreMap EXCEPT ![existing].score = @ + result.score,
                           ![existing].sources = @ \cup {source}]
     ELSE Append(scoreMap, [id |-> result.id, metadata |-> result.metadata,
                            score |-> result.score, sources |-> {source}])

\* the callback of results.forEach((result, rank) => ...); scoreMap is the
\* Map as the sequence of its entries in insertion order
scoreResult(result, rank, source, k, scoreMap) ==
  LET existing == MapGet(scoreMap, result.id)
  IN IF existing # 0
     THEN [scoreMap EXCEPT ![existing].score = @ + rrfScore(k, rank),
                           ![existing].sources = @ \cup {source}]
     ELSE Append(scoreMap, [id |-> result.id, metadata |-> result.metadata,
                            score |-> rrfScore(k, rank), sources |-> {source}])

RECURSIVE accumulateRange(_, _, _, _, _, _)
\* the callback on the ranks from..(to - 1) in ascending order: the first
\* half of the ranks, then the second half
accumulateRange(results, from, to, source, k, scoreMap) ==
  IF to <= from THEN scoreMap
  ELSE IF to = from + 1
  THEN scoreResult(results[from + 1], from, source, k, scoreMap)
  ELSE LET mid == (from + to) \div 2
           half == accumulateRange(results, from, mid, source, k, scoreMap)
       IN IF Len(half) >= 0
          THEN accumulateRange(results, mid, to, source, k, half)
          ELSE half

\* results.forEach((result, rank) => ...) from position rank on
accumulate(results, rank, source, k, scoreMap) ==
  accumulateRange(results, rank, Len(results), source, k, scoreMap)

\* mutant of toResult: the dense source is tested before the number of sources
toResultDenseFirst(data) ==
  [id |-> data.id, score |-> data.score, metadata |-> data.metadata,
   source |-> IF "dense" \in data.sources THEN "dense"
              ELSE IF Cardinality(data.sources) = 2 THEN "hybrid"
              ELSE "sparse"]

\* one entry of the Map as a SearchResult
toResult(data) ==
  [id |-> data.id, score |-> data.score, metadata |-> data.metadata,
   source |-> IF Cardinality(data.sources) = 2 THEN "hybrid"
              ELSE IF "dense" \in data.sources THEN "dense"
              ELSE "sparse"]

\* mutant of sortByScore: the entries stay in the insertion order of the Map
unsorted(rs) == rs

\* Array.prototype.sort((a, b) => b.score - a.score): stable, descending.
\* An element goes after every element that scores above it and after the
\* earlier elements of its own score.
sortByScore(rs) ==
  LET before(i) == {j \in 1..Len(rs) : \/ rs[j].score > rs[i].score
                                       \/ rs[j].score = rs[i].score /\ j < i}
  IN [p \in 1..Len(rs) |->
        rs[CHOOSE i \in 1..Len(rs) : Cardinality(before(i)) = p - 1]]

\* mutant of reciprocalRankFusion: the second pass runs over the dense list
\* again
reciprocalRankFusionDenseTwice(dense, sparse, k) ==
  LET afterDense == accumulate(dense, 0, "dense", k, <<>>)
      scoreMap == accumulate(dense, 0, "sparse", k, afterDense)
  IN sortByScore([i \in 1..Len(scoreMap) |-> toResult(scoreMap[i])])

reciprocalRankFusion(dense, sparse, k) ==
  LET afterDense == accumulate(dense, 0, "dense", k, <<>>)
      scoreMap == accumulate(sparse, 0, "sparse", k, afterDense)
  IN sortByScore([i \in 1..Len(scoreMap) |-> toResult(scoreMap[i])])

\* the record ids of the input universe
Ids == {"w", "x", "y", "z"}

\* the ids a partition of the store can return: "x" is in the dense partition
\* only, "w" in the sparse partition only
StoreIds(source) == IF source = "dense" THEN Ids \ {"w"} ELSE Ids \ {"x"}

\* A result list as searchDenseIndex / searchSparseIndex return it: the store
\* ranks by descending score; the metadata of a match is an opaque payload,
\* here tagged with the list and position it came from.
ResultList(ids, source, scale) ==
  [i \in 1..Len(ids) |->
     [id |-> ids[i], metadata |-> [chunk_text |-> <<source, i>>],
      score |-> scale * (Len(ids) + 1 - i), source |-> source]]

ResultLists(source) ==
  {ResultList(ids, source, scale) :
     ids \in SeqUpTo(StoreIds(source), MaxResults), scale \in {1, 2}}

\* the values of the RRF constant of the input universe (60 is the default)
RrfKs == {0, 60}

(* ------------------------------- state --------------------------------- *)

VARIABLES
  pc,               \* position of the call being modelled
  opts,             \* chunkDocument: the resolved options
  items,            \* chunkDocument: the items the loop has read so far
  readCtx,          \* history: per item read, the heading context and the
                    \* length of the accumulated text when it was read
  chunks,           \* chunkDocument: chunks
  currentHeadings,  \* chunkDocument: currentHeadings
  currentText,      \* chunkDocument: currentText
  currentTypes,     \* chunkDocument: currentTypes
  currentItems,     \* history: positions of the items in currentText
  doc,              \* extractItemsInOrder: the document
  extracted,        \* extractItemsInOrder: the items returned
  denseResults,     \* reciprocalRankFusion: denseResults
  sparseResults,    \* reciprocalRankFusion: sparseResults
  rrfK,             \* reciprocalRankFusion: k
  mergedResults,    \* reciprocalRankFusion: the list returned
  hybridOptions,    \* hybridSearch: options (topK, rerank, rerankTopN)
  fetchK,           \* hybridSearch: fetchK
  calls,            \* hybridSearch: state of each of its five external calls
  issued,           \* history: number of requests issued, per call
  searchTopK,       \* searchDenseIndex / searchSparseIndex: topK, as requested
  settled,          \* hybridSearch: the lists the two search calls resolved to
  candidatesForRerank, \* hybridSearch: candidatesForRerank
  rerankTopN,       \* rerank: topN, as passed to the service
  rerankResponse,   \* rerank: response.data
  hybridResults,    \* hybridSearch: the list it resolved to
  idxChunks,        \* indexChunks: chunks
  sourceFile,       \* indexChunks: sourceFile
  batchStart,       \* the loop index i of the batch loop being run
  denseEmbeddings,  \* indexChunks: denseEmbeddings (allEmbeddings while built)
  sparseEmbeddings, \* indexChunks: sparseEmbeddings (allEmbeddings while built)
  denseRecords,     \* indexChunks: denseRecords
  sparseRecords,    \* indexChunks: sparseRecords
  inflight,         \* the backend requests issued and not yet answered
  requestLog,       \* history: the backend requests issued, in order
  denseStore,       \* the records of the namespace in the dense index
  sparseStore,      \* the records of the namespace in the sparse index
  storesAtCall,     \* history: the two stores when indexChunks was called
  indexResult,      \* indexChunks: what the call resolved or rejected with
  files,            \* indexCommand: the file names findSupportedFiles found
  fileIndex,        \* indexCommand: i, the files the loop is done with
  totalChunks,      \* indexCommand: totalChunks
  successCount,     \* indexCommand: successCount
  errorCount,       \* indexCommand: errorCount
  fileOutcomes,     \* history: how the loop was left, per file
  cleared,          \* history: the outcome of the two deleteAll requests
  storesAtRun       \* history: the two stores when the command started

chunkVars == <<opts, items, readCtx, chunks, currentHeadings, currentText,
               currentTypes, currentItems>>
extractVars == <<doc, extracted>>
fusionVars == <<denseResults, sparseResults, rrfK, mergedResults>>
hybridVars == <<hybridOptions, fetchK, calls, issued, searchTopK, settled,
                candidatesForRerank, rerankTopN, rerankResponse, hybridResults>>
indexVars == <<idxChunks, sourceFile, batchStart, denseEmbeddings,
               sparseEmbeddings, denseRecords, sparseRecords, inflight,
               requestLog, denseStore, sparseStore, storesAtCall, indexResult>>

commandVars == <<files, fileIndex, totalChunks, successCount, errorCount,
                 fileOutcomes, cleared, storesAtRun>>

vars == <<pc, chunkVars, extractVars, fusionVars, hybridVars, indexVars, commandVars>>

(* ---------------------------- chunkDocument ---------------------------- *)

Sep == <<"\n", "\n">>

\* one chunk; sourceItems is a history field: the positions (in items) of the
\* items whose text was accumulated into the text the chunk was cut from
Chunk(text, headings, itemTypes, chunkIndex, sourceItems) ==
  [chunkIndex |-> chunkIndex, headings |-> headings, itemTypes |-> itemTypes,
   sourceItems |-> sourceItems, text |-> text]

\* the chunks after flushChunk() (which also empties currentText and
\* currentTypes: see Flushed below)
flushChunk(chs, text, headings, types, srcs, maxChunkSize) ==
  IF trim(text) # <<>>
  THEN IF Len(text) > maxChunkSize
       THEN LET parts == splitAtSentences(trim(text), maxChunkSize)
            IN chs \o [i \in 1..Len(parts) |->
                         Chunk(parts[i], headings, types, Len(chs) + i - 1, srcs)]
       ELSE Append(chs, Chunk(trim(text), headings, types, Len(chs), srcs))
  ELSE chs

\* mutant of updateHeadings: the hierarchy is never cut
updateHeadingsUncut(headings, item) ==
  IF item.label = "title" THEN <<item.text>>
  ELSE IF item.label = "chapter" THEN <<item.text>>
  ELSE Append(headings, item.text)

\* the heading hierarchy after a heading item
updateHeadings(headings, item) ==
  IF item.label = "title" THEN <<item.text>>
  ELSE IF item.label = "chapter" THEN <<item.text>>
  ELSE Append(IF Len(headings) >= 3
              THEN SubSeq(headings, Len(headings) - 1, Len(headings))
              ELSE headings,
              item.text)

\* mutant of reIndex: the pass numbers the chunks from 1
reIndexFromOne(chs) == [i \in 1..Len(chs) |-> [chs[i] EXCEPT !.chunkIndex = i]]

\* the final pass that re-indexes the chunks
reIndex(chs) == [i \in 1..Len(chs) |-> [chs[i] EXCEPT !.chunkIndex = i - 1]]

Read(item) ==
  /\ items' = Append(items, item)
  /\ readCtx' = Append(readCtx, [accLen |-> Len(currentText),
                                 headings |-> currentHeadings])

\* the loop has a next item, a heading: the item sequences of the input
\* universe are the sequences of at most MaxItems items and the sequences
\* of at most MaxHeadings headings
NextIsHeading(item) ==
  /\ item.isHeading
  /\ \/ Len(items) < MaxItems
     \/ /\ Len(items) < MaxHeadings
        /\ \A i \in 1..Len(items) : items[i].isHeading

\* mutant of ReadHeading: the heading hierarchy is updated before the flush,
\* so the flushed chunk carries the headings of the section that starts
ReadHeadingUpdateFirst(item) ==
  /\ pc = "chunking"
  /\ NextIsHeading(item)
  /\ currentHeadings' = updateHeadings(currentHeadings, item)
  /\ LET flush == Len(currentText) >= opts.minChunkSize
     IN /\ chunks' = IF flush
                     THEN flushChunk(chunks, currentText, currentHeadings',
                                     currentTypes, currentItems, opts.maxChunkSize)
                     ELSE chunks
        /\ currentText' = (IF flush THEN <<>> ELSE currentText) \o item.text \o Sep
        /\ currentTypes' = (IF flush THEN {} ELSE currentTypes) \cup {item.label}
        /\ currentItems' = (IF flush THEN {} ELSE currentItems) \cup {Len(items) + 1}
  /\ Read(item)
  /\ UNCHANGED <<pc, opts, extractVars, fusionVars,
               hybridVars, indexVars, commandVars>>

\* loop body, heading item
ReadHeading(item) ==
  /\ pc = "chunking"
  /\ NextIsHeading(item)
  /\ LET flush == Len(currentText) >= opts.minChunkSize
     IN /\ chunks' = IF flush
                     THEN flushChunk(chunks, currentText, currentHeadings,
                                     currentTypes, currentItems, opts.maxChunkSize)
                     ELSE chunks
        /\ currentText' = (IF flush THEN <<>> ELSE currentText) \o item.text \o Sep
        /\ currentTypes' = (IF flush THEN {} ELSE currentTypes) \cup {item.label}
        /\ currentItems' = (IF flush THEN {} ELSE currentItems) \cup {Len(items) + 1}
  /\ currentHeadings' = updateHeadings(currentHeadings, item)
  /\ Read(item)
  /\ UNCHANGED <<pc, opts, extractVars, fusionVars,
               hybridVars, indexVars, commandVars>>

\* mutant of ReadTable: the table text is accumulated like regular content
\* instead of becoming a chunk of its own
ReadTableMerged(item) ==
  /\ pc = "chunking"
  /\ Len(items) < MaxItems
  /\ ~item.isHeading
  /\ item.label = "table"
  /\ currentText' = currentText \o item.text \o Sep
  /\ currentTypes' = currentTypes \cup {item.label}
  /\ currentItems' = currentItems \cup {Len(items) + 1}
  /\ Read(item)
  /\ UNCHANGED <<pc, opts, chunks, currentHeadings, extractVars, fusionVars,
               hybridVars, indexVars, commandVars>>

\* loop body, table item
ReadTable(item) ==
  /\ pc = "chunking"
  /\ Len(items) < MaxItems
  /\ ~item.isHeading
  /\ item.label = "table"
  /\ LET flush == trim(currentText) # <<>>
         flushed == IF flush
                    THEN flushChunk(chunks, currentText, currentHeadings,
                                    currentTypes, currentItems, opts.maxChunkSize)
                    ELSE chunks
     IN /\ chunks' = Append(flushed,
                            Chunk(item.text, currentHeadings, {"table"},
                                  Len(flushed), {Len(items) + 1}))
        /\ currentText' = IF flush THEN <<>> ELSE currentText
        /\ currentTypes' = IF flush THEN {} ELSE currentTypes
        /\ currentItems' = IF flush THEN {} ELSE currentItems
  /\ Read(item)
  /\ UNCHANGED <<pc, opts, currentHeadings, extractVars, fusionVars,
               hybridVars, indexVars, commandVars>>

\* loop body, regular content
ReadContent(item) ==
  /\ pc = "chunking"
  /\ Len(items) < MaxItems
  /\ ~item.isHeading
  /\ item.label # "table"
  /\ LET newText == currentText \o item.text \o Sep
         flush == Len(newText) > opts.maxChunkSize
     IN /\ chunks' = IF flush
                     THEN flushChunk(chunks, currentText, currentHeadings,
                                     currentTypes, currentItems, opts.maxChunkSize)
                     ELSE chunks
        /\ currentText' = IF flush THEN item.text \o Sep ELSE newText
        /\ currentTypes' = (IF flush THEN {} ELSE currentTypes) \cup {item.label}
        /\ currentItems' = (IF flush THEN {} ELSE currentItems) \cup {Len(items) + 1}
  /\ Read(item)
  /\ UNCHANGED <<pc, opts, currentHeadings, extractVars, fusionVars,
               hybridVars, indexVars, commandVars>>

\* end of the loop: the final flush, the re-indexing pass and the return
\* (an empty item list returns [] before the loop)
Return ==
  /\ pc = "chunking"
  /\ chunks' = IF items = <<>> THEN <<>>
               ELSE reIndex(flushChunk(chunks, currentText, currentHeadings,
                                       currentTypes, currentItems,
                                       opts.maxChunkSize))
  /\ currentText' = <<>>
  /\ currentTypes' = {}
  /\ currentItems' = {}
  /\ pc' = "returned"
  /\ UNCHANGED <<opts, items, readCtx, currentHeadings, extractVars, fusionVars,
               hybridVars, indexVars, commandVars>>

\* the chunker before its loop, with the default options
ChunkStart ==
  /\ items = <<>>
  /\ readCtx = <<>>
  /\ chunks = <<>>
  /\ currentHeadings = <<>>
  /\ currentText = <<>>
  /\ currentTypes = {}
  /\ currentItems = {}

ChunkIdle == opts = [maxChunkSize |-> 2000, minChunkSize |-> 200] /\ ChunkStart
ExtractIdle == doc = NoDoc /\ extracted = <<>>
FusionIdle ==
  /\ denseResults = <<>>
  /\ sparseResults = <<>>
  /\ rrfK = 60
  /\ mergedResults = <<>>

\* the five external calls of hybridSearch
CallNames == {"denseEmbed", "sparseEmbed", "denseSearch", "sparseSearch", "rerank"}

\* rerankTopN of the options: absent, or a number
NoTopN == [given |-> FALSE, value |-> 0]

\* hybridSearch before it is called: the default options, no call issued
HybridStart ==
  /\ fetchK = 0
  /\ calls = [c \in CallNames |-> "none"]
  /\ issued = [c \in CallNames |-> 0]
  /\ searchTopK = [denseSearch |-> 0, sparseSearch |-> 0]
  /\ settled = [denseSearch |-> <<>>, sparseSearch |-> <<>>]
  /\ candidatesForRerank = <<>>
  /\ rerankTopN = 0
  /\ rerankResponse = <<>>
  /\ hybridResults = <<>>

HybridIdle ==
  /\ hybridOptions = [rerank |-> TRUE, rerankTopN |-> NoTopN, topK |-> 10]
  /\ HybridStart

\* what indexChunks has resolved or rejected with: nothing yet
NoResult == [denseCount |-> 0, error |-> "", sparseCount |-> 0, status |-> "pending"]

\* indexChunks before it is called, on an empty namespace
IndexStart ==
  /\ batchStart = 0
  /\ denseEmbeddings = <<>>
  /\ sparseEmbeddings = <<>>
  /\ denseRecords = <<>>
  /\ sparseRecords = <<>>
  /\ inflight = <<>>
  /\ requestLog = <<>>
  /\ indexResult = NoResult

IndexIdle ==
  /\ idxChunks = <<>>
  /\ sourceFile = <<>>
  /\ denseStore = {}
  /\ sparseStore = {}
  /\ storesAtCall = [dense |-> {}, sparse |-> {}]
  /\ IndexStart

\* indexCommand before it is called
CommandStart ==
  /\ fileIndex = 0
  /\ totalChunks = 0
  /\ successCount = 0
  /\ errorCount = 0
  /\ fileOutcomes = <<>>
  /\ cleared = [dense |-> "none", sparse |-> "none"]

CommandIdle ==
  /\ files = <<>>
  /\ storesAtRun = [dense |-> {}, sparse |-> {}]
  /\ CommandStart

Init ==
  /\ pc = "chunking"
  /\ opts \in ChunkOptions
  /\ ChunkStart
  /\ ExtractIdle
  /\ FusionIdle
  /\ HybridIdle
  /\ IndexIdle
  /\ CommandIdle

\* The loop `for (const item of items)` takes one step per item. The item
\* sequence is any sequence over Items of at most MaxItems items, or of at
\* most MaxHeadings headings: each step
\* reads the next item of it, and Return is the end of the sequence.
Next ==
  \/ \E item \in Items : ReadHeading(item)
  \/ \E item \in Items : ReadTable(item)
  \/ \E item \in Items : ReadContent(item)
  \/ Return

\* chunkDocument over every item sequence of the input universe
Spec == Init /\ [][Next]_vars

(* ------------------ extractItemsInOrder, as one step ------------------- *)

Extract ==
  /\ pc = "extract"
  /\ extracted' = extractItemsInOrder(doc)
  /\ pc' = "extracted"
  /\ UNCHANGED <<doc, chunkVars, fusionVars, hybridVars, indexVars, commandVars>>

InitExtract ==
  /\ pc = "extract"
  /\ doc \in Docs
  /\ extracted = <<>>
  /\ ChunkIdle
  /\ FusionIdle
  /\ HybridIdle
  /\ IndexIdle
  /\ CommandIdle

NextExtract == Extract

SpecExtract == InitExtract /\ [][NextExtract]_vars

(* ------------------ reciprocalRankFusion, as one step ------------------ *)

Fuse ==
  /\ pc = "fuse"
  /\ mergedResults' = reciprocalRankFusion(denseResults, sparseResults, rrfK)
  /\ pc' = "fused"
  /\ UNCHANGED <<denseResults, sparseResults, rrfK, chunkVars, extractVars,
                 hybridVars, indexVars, commandVars>>

InitFusion ==
  /\ pc = "fuse"
  /\ denseResults \in ResultLists("dense")
  /\ sparseResults \in ResultLists("sparse")
  /\ rrfK \in RrfKs
  /\ mergedResults = <<>>
  /\ ChunkIdle
  /\ ExtractIdle
  /\ HybridIdle
  /\ IndexIdle
  /\ CommandIdle

NextFusion == Fuse

SpecFusion == InitFusion /\ [][NextFusion]_vars

(* ------------------------------ hybridSearch --------------------------- *)

\* bound: the matches a search response holds at most
MaxMatches == 2

\* mutant of Max: the first argument
MaxLeft(a, b) == a

Max(a, b) == IF a >= b THEN a ELSE b

\* the options hybridSearch is called with: its callers pass topK >= 1
HybridOptions ==
  [rerank : BOOLEAN, rerankTopN : {NoTopN} \cup {[given |-> TRUE, value |-> n] : n \in {1, 2}},
   topK : {1, 2, 11}]

\* what an embedding request for the query can give: a response whose first
\* entry has the vector, a response whose entry lacks (part of) it, a rejection
EmbedResponses(call) ==
  IF call = "denseEmbed" THEN {"values", "no values", "rejected"}
  ELSE {"indices and values", "no indices", "no values", "rejected"}

\* generateDenseQueryEmbedding / generateSparseQueryEmbedding resolve only
\* when the entry has what they read of it, and throw otherwise
embedded(call, response) ==
  IF call = "denseEmbed" THEN response = "values"
  ELSE response = "indices and values"

\* what a query of an index can give: the matches, as searchDenseIndex /
\* searchSparseIndex map them to results, or a rejection. Past the rank
\* MaxResults the fused scores are rounded down to the unit, which keeps
\* their order.
\* a response of 12 matches, with ids the other index does not hold
ManyIds(source) ==
  IF source = "dense"
  THEN <<"d01", "d02", "d03", "d04", "d05", "d06",
         "d07", "d08", "d09", "d10", "d11", "d12">>
  ELSE <<"s01", "s02", "s03", "s04", "s05", "s06",
         "s07", "s08", "s09", "s10", "s11", "s12">>
Matches(source) ==
  {ResultList(ids, source, 1) : ids \in SeqUpTo(StoreIds(source) \ {"z"}, MaxMatches)}
    \cup {ResultList(ManyIds(source), source, 1)}
SearchResponses(source) ==
  {[matches |-> <<>>, rejected |-> TRUE]}
    \cup {[matches |-> m, rejected |-> FALSE] : m \in Matches(source)}

\* what the rerank service can give: a rejection, or any list of (index,
\* score) entries: of any length, indexes repeated or outside the documents
RerankItem(index, score) == [index |-> index, score |-> score]
RerankData ==
  { <<>>,
    <<RerankItem(0, 9)>>,
    <<RerankItem(1, 9), RerankItem(0, 5)>>,
    <<RerankItem(2, 9), RerankItem(0, 5), RerankItem(1, 1)>>,
    <<RerankItem(7, 9), RerankItem(0, 5)>>,
    <<RerankItem(0 - 1, 9), RerankItem(1, 5), RerankItem(1, 4)>> }
RerankResponses ==
  {[data |-> <<>>, rejected |-> TRUE]}
    \cup {[data |-> data, rejected |-> FALSE] : data \in RerankData}

\* mutant of slice: nothing is cut off
sliceAll(s, start, end) == s

\* Array.prototype.slice(start, end) for 0 <= start and 0 <= end
slice(s, start, end) == SubSeq(s, start + 1, Min({end, Len(s)}))

\* mutant of promiseAll: fulfilled as soon as one of the two has succeeded
promiseAllRace(cs, a, b) ==
  IF cs[a] = "failed" \/ cs[b] = "failed" THEN "rejected"
  ELSE IF cs[a] = "ok" \/ cs[b] = "ok" THEN "fulfilled"
  ELSE "pending"

\* the state of Promise.all over the two calls a and b: rejected as soon as
\* one of them has failed, fulfilled once both have succeeded
promiseAll(cs, a, b) ==
  IF cs[a] = "failed" \/ cs[b] = "failed" THEN "rejected"
  ELSE IF cs[a] = "ok" /\ cs[b] = "ok" THEN "fulfilled"
  ELSE "pending"

\* mutant of rerankedFrom: the n-th entry of response.data is taken to score
\* the n-th result
rerankedFromByPosition(results, data) ==
  LET known == SelectSeq(data, LAMBDA item : item.index \in 0..(Len(results) - 1))
  IN [n \in 1..Min({Len(known), Len(results)}) |->
        [results[n] EXCEPT !.score = known[n].score, !.source = "hybrid"]]

\* rerank, after the response: one result per entry of response.data whose
\* index is one of the results, in the order of response.data
rerankedFrom(results, data) ==
  LET known == SelectSeq(data, LAMBDA item : item.index \in 0..(Len(results) - 1))
  IN [n \in 1..Len(known) |->
        [results[known[n].index + 1] EXCEPT !.score = known[n].score,
                                            !.source = "hybrid"]]

\* mutant of HybridSearch: the search requests are issued together with the
\* embedding requests
HybridSearchEager ==
  /\ pc = "hybrid"
  /\ fetchK' = Max(hybridOptions.topK * 2, 20)
  /\ calls' = [c \in CallNames |-> IF c = "rerank" THEN "none" ELSE "inflight"]
  /\ issued' = [c \in CallNames |-> IF c = "rerank" THEN 0 ELSE 1]
  /\ pc' = "embedding"
  /\ UNCHANGED <<hybridOptions, searchTopK, settled, candidatesForRerank, rerankTopN,
                 rerankResponse, hybridResults, chunkVars, extractVars,
                 fusionVars, indexVars, commandVars>>

\* hybridSearch up to its first await: the options are resolved and the two
\* embedding requests are issued
HybridSearch ==
  /\ pc = "hybrid"
  /\ fetchK' = Max(hybridOptions.topK * 2, 20)
  /\ calls' = [calls EXCEPT !["denseEmbed"] = "inflight", !["sparseEmbed"] = "inflight"]
  /\ issued' = [issued EXCEPT !["denseEmbed"] = @ + 1, !["sparseEmbed"] = @ + 1]
  /\ pc' = "embedding"
  /\ UNCHANGED <<hybridOptions, searchTopK, settled, candidatesForRerank, rerankTopN,
                 rerankResponse, hybridResults, chunkVars, extractVars,
                 fusionVars, indexVars, commandVars>>

\* an embedding request completes; hybridSearch, if it awaits the first
\* Promise.all, goes on when both have succeeded (and issues the two search
\* requests) and rejects as soon as one has failed
QueryEmbedding(call, response) ==
  /\ calls[call] = "inflight"
  /\ LET cs == [calls EXCEPT ![call] = IF embedded(call, response) THEN "ok" ELSE "failed"]
         all == promiseAll(cs, "denseEmbed", "sparseEmbed")
     IN IF pc = "embedding" /\ all = "fulfilled"
        THEN /\ calls' = [cs EXCEPT !["denseSearch"] = "inflight",
                                    !["sparseSearch"] = "inflight"]
             /\ issued' = [issued EXCEPT !["denseSearch"] = @ + 1,
                                         !["sparseSearch"] = @ + 1]
             /\ searchTopK' = [denseSearch |-> fetchK, sparseSearch |-> fetchK]
             /\ pc' = "searching"
        ELSE /\ calls' = cs
             /\ pc' = IF pc = "embedding" /\ all = "rejected" THEN "failed" ELSE pc
             /\ UNCHANGED <<issued, searchTopK>>
  /\ UNCHANGED <<hybridOptions, fetchK, settled, candidatesForRerank, rerankTopN,
                 rerankResponse, hybridResults, chunkVars, extractVars,
                 fusionVars, indexVars, commandVars>>

GenerateDenseQueryEmbedding(response) == QueryEmbedding("denseEmbed", response)
GenerateSparseQueryEmbedding(response) == QueryEmbedding("sparseEmbed", response)

\* hybridSearch after the second Promise.all: fusion, then either the first
\* topK of the fused list, or the rerank of its first candidates; rerank
\* resolves to [] without a request when it is given no candidate
Fused(cs, found) ==
  LET merged == reciprocalRankFusion(found.denseSearch, found.sparseSearch, rrfK)
      candidates == slice(merged, 0, Max(hybridOptions.topK * 2, fetchK))
  IN /\ denseResults' = found.denseSearch
     /\ sparseResults' = found.sparseSearch
     /\ mergedResults' = merged
     /\ IF ~hybridOptions.rerank
        THEN /\ hybridResults' = slice(merged, 0, hybridOptions.topK)
             /\ pc' = "done"
             /\ calls' = cs
             /\ UNCHANGED <<issued, candidatesForRerank, rerankTopN>>
        ELSE /\ candidatesForRerank' = candidates
             /\ rerankTopN' = IF hybridOptions.rerankTopN.given
                              THEN hybridOptions.rerankTopN.value
                              ELSE hybridOptions.topK
             /\ IF Len(candidates) = 0
                THEN /\ hybridResults' = <<>>
                     /\ pc' = "done"
                     /\ calls' = cs
                     /\ UNCHANGED issued
                ELSE /\ calls' = [cs EXCEPT !["rerank"] = "inflight"]
                     /\ issued' = [issued EXCEPT !["rerank"] = @ + 1]
                     /\ pc' = "reranking"
                     /\ UNCHANGED hybridResults

\* a search request completes; hybridSearch, if it awaits the second
\* Promise.all, goes on when both have succeeded and rejects as soon as one
\* has failed
SearchIndex(call, response) ==
  /\ calls[call] = "inflight"
  /\ LET cs == [calls EXCEPT ![call] = IF response.rejected THEN "failed" ELSE "ok"]
         found == [settled EXCEPT ![call] = response.matches]
         all == promiseAll(cs, "denseSearch", "sparseSearch")
     IN /\ settled' = found
        /\ IF pc = "searching" /\ all = "fulfilled"
           THEN Fused(cs, found)
           ELSE /\ calls' = cs
                /\ pc' = IF pc = "searching" /\ all = "rejected" THEN "failed" ELSE pc
                /\ UNCHANGED <<issued, candidatesForRerank, rerankTopN,
                               hybridResults, denseResults, sparseResults,
                               mergedResults>>
  /\ UNCHANGED <<hybridOptions, searchTopK, fetchK, rerankResponse, rrfK, chunkVars,
                 extractVars, indexVars, commandVars>>

SearchDenseIndex(response) == SearchIndex("denseSearch", response)
SearchSparseIndex(response) == SearchIndex("sparseSearch", response)

\* mutant of Rerank: when the request fails the candidates are returned as
\* they are
RerankFallback(response) ==
  /\ calls["rerank"] = "inflight"
  /\ rerankResponse' = response.data
  /\ calls' = [calls EXCEPT !["rerank"] = IF response.rejected THEN "failed" ELSE "ok"]
  /\ hybridResults' = IF response.rejected THEN candidatesForRerank
                      ELSE rerankedFrom(candidatesForRerank, response.data)
  /\ pc' = "done"
  /\ UNCHANGED <<hybridOptions, searchTopK, fetchK, issued, settled, candidatesForRerank,
                 rerankTopN, chunkVars, extractVars, fusionVars, indexVars, commandVars>>

\* the rerank request completes: hybridSearch resolves to the reranked list,
\* or rejects with the failure of the request
Rerank(response) ==
  /\ calls["rerank"] = "inflight"
  /\ rerankResponse' = response.data
  /\ IF response.rejected
     THEN /\ calls' = [calls EXCEPT !["rerank"] = "failed"]
          /\ pc' = "failed"
          /\ UNCHANGED hybridResults
     ELSE /\ calls' = [calls EXCEPT !["rerank"] = "ok"]
          /\ hybridResults' = rerankedFrom(candidatesForRerank, response.data)
          /\ pc' = "done"
  /\ UNCHANGED <<hybridOptions, searchTopK, fetchK, issued, settled, candidatesForRerank,
                 rerankTopN, chunkVars, extractVars, fusionVars, indexVars, commandVars>>

InitHybrid ==
  /\ pc = "hybrid"
  /\ hybridOptions \in HybridOptions
  /\ HybridStart
  /\ ChunkIdle
  /\ ExtractIdle
  /\ FusionIdle
  /\ IndexIdle
  /\ CommandIdle

NextHybrid ==
  \/ HybridSearch
  \/ \E response \in EmbedResponses("denseEmbed") : GenerateDenseQueryEmbedding(response)
  \/ \E response \in EmbedResponses("sparseEmbed") : GenerateSparseQueryEmbedding(response)
  \/ \E response \in SearchResponses("dense") : SearchDenseIndex(response)
  \/ \E response \in SearchResponses("sparse") : SearchSparseIndex(response)
  \/ \E response \in RerankResponses : Rerank(response)

\* hybridSearch over every option, every outcome of its calls and every
\* order in which the calls of a pair complete
SpecHybrid == InitHybrid /\ [][NextHybrid]_vars

(* ------------------------------ indexChunks ---------------------------- *)

\* batchSize of generateDenseEmbeddings, generateSparseEmbeddings,
\* upsertToDenseIndex and upsertToSparseIndex
denseEmbedBatchSize == 96
sparseEmbedBatchSize == 96
denseUpsertBatchSize == 100
sparseUpsertBatchSize == 100

\* the length chunk_text is cut to
chunkTextLimit == 40000

\* the source file names of the input universe; the first two have the same
\* hash
SourceFiles == {<<"A", "a">>, <<"B", "B">>, <<"a">>}

\* charCodeAt, for the characters of the file names
charCode(ch) == CASE ch = "A" -> 65 [] ch = "B" -> 66 [] ch = "a" -> 97

RECURSIVE hashFrom(_, _, _)
\* the loop `hash = (hash << 5) - hash + char; hash = hash & hash`: the file
\* names of the universe keep every value within 32 bits, where `<< 5` is a
\* multiplication by 32 and `hash & hash` leaves the value as it is
hashFrom(name, i, hash) ==
  IF i >= Len(name) THEN hash
  ELSE hashFrom(name, i + 1, (hash * 32) - hash + charCode(name[i + 1]))

Abs(n) == IF n < 0 THEN 0 - n ELSE n

Digits == <<"0", "1", "2", "3", "4", "5", "6", "7", "8", "9", "a", "b", "c",
            "d", "e", "f", "g", "h", "i", "j", "k", "l", "m", "n", "o", "p",
            "q", "r", "s", "t", "u", "v", "w", "x", "y", "z">>

RECURSIVE toString(_, _)
\* Number.prototype.toString(radix) of an integer n >= 0
toString(n, radix) ==
  IF n < radix THEN <<Digits[n + 1]>>
  ELSE toString(n \div radix, radix) \o <<Digits[(n % radix) + 1]>>

\* String.prototype.padStart(targetLength, padString) for a 1-character pad
padStart(str, targetLength, pad) ==
  IF Len(str) >= targetLength THEN str
  ELSE [n \in 1..(targetLength - Len(str)) |-> pad] \o str

fileHash(name) == toString(Abs(hashFrom(name, 0, 0)), 36)

\* mutant of recordId: the chunk position is left out of the id
recordIdOfFile(name, i) == fileHash(name)

\* the id of the record of chunk i (from 0) of a file
recordId(name, i) == fileHash(name) \o <<"-">> \o padStart(toString(i, 10), 4, "0")

\* the chunks of the input universe: a document of n chunks, each with its
\* own text; the counts reach past one batch of embeddings and of upserts
ChunkCounts == {0, 1, 2, 97, 101}
ChunksOf(n) ==
  [p \in 1..n |-> Chunk(<<"c">> \o toString(p - 1, 10), <<>>, {"text"}, p - 1, {})]

\* the vectors the embedding models give for a text
denseVector(text) == <<"d">> \o text
sparseVector(text) == [indices |-> <<"i">> \o text, values |-> <<"s">> \o text]

\* an entry of the response of the dense model, with or without `values`
DenseEntry(text, has) ==
  [has |-> has, values |-> IF has THEN denseVector(text) ELSE <<>>]
\* an entry of the response of the sparse model, with or without
\* `sparseIndices` and `sparseValues`
SparseEntry(text, has) ==
  [has |-> has,
   sparseIndices |-> IF has THEN sparseVector(text).indices ELSE <<>>,
   sparseValues |-> IF has THEN sparseVector(text).values ELSE <<>>]

\* what an embedding request can give for a batch: one entry per text, one
\* entry per text with the first one lacking its vector, an entry too few,
\* an entry too many, or a rejection
EmbedShapes == {"full", "hole", "short", "long", "rejected"}
DenseData(batch, shape) ==
  LET full == [j \in 1..Len(batch) |-> DenseEntry(batch[j], shape # "hole" \/ j > 1)]
  IN CASE shape = "short" -> SubSeq(full, 1, Len(full) - 1)
       [] shape = "long" -> Append(full, DenseEntry(<<"?">>, TRUE))
       [] OTHER -> full
SparseData(batch, shape) ==
  LET full == [j \in 1..Len(batch) |-> SparseEntry(batch[j], shape # "hole" \/ j > 1)]
  IN CASE shape = "short" -> SubSeq(full, 1, Len(full) - 1)
       [] shape = "long" -> Append(full, SparseEntry(<<"?">>, TRUE))
       [] OTHER -> full

\* generateDenseEmbeddings, the inner loop: the entries that have `values`
denseOf(data) ==
  LET kept == SelectSeq(data, LAMBDA e : e.has)
  IN [j \in 1..Len(kept) |-> [values |-> kept[j].values]]

\* generateSparseEmbeddings, the inner loop: one embedding per entry, an
\* empty one for an entry without its vector
sparseOf(data) ==
  [j \in 1..Len(data) |->
     IF data[j].has
     THEN [indices |-> data[j].sparseIndices, values |-> data[j].sparseValues]
     ELSE [indices |-> <<>>, values |-> <<>>]]

\* mutant of lengthsAgree: the lengths are not compared
lengthsAgreeNone(cs, dense, sparse) == TRUE

\* createRecordsFromChunks: the length check
lengthsAgree(cs, dense, sparse) ==
  Len(cs) = Len(dense) /\ Len(cs) = Len(sparse)

\* createRecordsFromChunks: metadata of chunk i (from 0)
metadataOf(cs, name, i) ==
  [chunk_index |-> i, chunk_text |-> slice(cs[i + 1].text, 0, chunkTextLimit),
   headings |-> cs[i + 1].headings,
   item_types |-> cs[i + 1].itemTypes, source |-> name,
   total_chunks |-> Len(cs)]

\* createRecordsFromChunks: the loop reads denseEmbeddings[i].values and
\* sparseEmbeddings[i].values, a TypeError when there is no such entry
readable(cs, dense, sparse) == Len(dense) >= Len(cs) /\ Len(sparse) >= Len(cs)

\* mutant of denseRecordsOf: the id is made of the text of the chunk
denseRecordsOfText(cs, name, dense) ==
  [p \in 1..Len(cs) |->
     [id |-> fileHash(name) \o <<"-">> \o cs[p].text, metadata |-> metadataOf(cs, name, p - 1),
      values |-> dense[p].values]]

denseRecordsOf(cs, name, dense) ==
  [p \in 1..Len(cs) |->
     [id |-> recordId(name, p - 1), metadata |-> metadataOf(cs, name, p - 1),
      values |-> dense[p].values]]

\* a sparse record only for the chunks whose sparse embedding has values
sparseRecordsOf(cs, name, sparse) ==
  LET all == [p \in 1..Len(cs) |->
                [id |-> recordId(name, p - 1), metadata |-> metadataOf(cs, name, p - 1),
                 sparseValues |-> sparse[p]]]
  IN SelectSeq(all, LAMBDA r : Len(r.sparseValues.values) > 0)

\* upsertToSparseIndex: the records with a non-empty sparse vector
pineconeRecords(records) ==
  SelectSeq(records, LAMBDA r : Len(r.sparseValues.values) > 0
                                /\ Len(r.sparseValues.indices) > 0)

\* the store after an upsert: a record replaces the stored one of the same id
upsert(store, batch) ==
  LET ids == {batch[j].id : j \in 1..Len(batch)}
  IN {r \in store : r.id \notin ids} \cup {batch[j] : j \in 1..Len(batch)}

\* the namespace when indexChunks is called: empty, or as an earlier run of
\* the file "a", then of two chunks with another text, left it
EarlierChunks ==
  [p \in 1..2 |-> Chunk(<<"e">> \o toString(p - 1, 10), <<>>, {"text"}, p - 1, {})]
EarlierDense ==
  upsert({}, denseRecordsOf(EarlierChunks, <<"a">>,
                            denseOf(DenseData([p \in 1..2 |-> EarlierChunks[p].text], "full"))))
EarlierSparse ==
  upsert({}, sparseRecordsOf(EarlierChunks, <<"a">>,
                             sparseOf(SparseData([p \in 1..2 |-> EarlierChunks[p].text], "full"))))
StoresAtCall ==
  {[dense |-> {}, sparse |-> {}], [dense |-> EarlierDense, sparse |-> EarlierSparse]}

texts == [p \in 1..Len(idxChunks) |-> idxChunks[p].text]

Request(api, batch) == [api |-> api, batch |-> batch]

Resolved(denseCount, sparseCount) ==
  [denseCount |-> denseCount, error |-> "", sparseCount |-> sparseCount,
   status |-> "resolved"]
Rejected(error) ==
  [denseCount |-> 0, error |-> error, sparseCount |-> 0, status |-> "rejected"]

\* indexChunks up to the call of generateDenseEmbeddings
IndexChunks ==
  /\ pc = "index"
  /\ IF Len(idxChunks) = 0
     THEN /\ indexResult' = Resolved(0, 0)
          /\ pc' = "indexed"
     ELSE /\ pc' = "denseEmbeddings"
          /\ UNCHANGED indexResult
  /\ UNCHANGED <<idxChunks, sourceFile, batchStart, denseEmbeddings,
                 sparseEmbeddings, denseRecords, sparseRecords, inflight,
                 requestLog, denseStore, sparseStore, storesAtCall,
                 chunkVars, extractVars, fusionVars, hybridVars, commandVars>>

\* mutant of Issue: the request is issued without awaiting the one before
IssueUnawaited(stage, api, all, batchSize) ==
  /\ pc = stage
  /\ Len(inflight) < 2
  /\ batchStart < Len(all)
  /\ inflight' = Append(inflight, Request(api, slice(all, batchStart, batchStart + batchSize)))
  /\ requestLog' = Append(requestLog, Request(api, slice(all, batchStart, batchStart + batchSize)))
  /\ UNCHANGED <<pc, idxChunks, sourceFile, batchStart, denseEmbeddings,
                 sparseEmbeddings, denseRecords, sparseRecords, denseStore,
                 sparseStore, storesAtCall, indexResult,
                 chunkVars, extractVars, fusionVars, hybridVars, commandVars>>

\* a request of one of the four batch loops is issued
Issue(stage, api, all, batchSize) ==
  /\ pc = stage
  /\ inflight = <<>>
  /\ batchStart < Len(all)
  /\ inflight' = Append(inflight, Request(api, slice(all, batchStart, batchStart + batchSize)))
  /\ requestLog' = Append(requestLog, Request(api, slice(all, batchStart, batchStart + batchSize)))
  /\ UNCHANGED <<pc, idxChunks, sourceFile, batchStart, denseEmbeddings,
                 sparseEmbeddings, denseRecords, sparseRecords, denseStore,
                 sparseStore, storesAtCall, indexResult,
                 chunkVars, extractVars, fusionVars, hybridVars, commandVars>>

\* a request fails: the failure leaves indexChunks through every await
Fail(error) ==
  /\ inflight' = Tail(inflight)
  /\ pc' = "indexFailed"
  /\ indexResult' = Rejected(error)
  /\ UNCHANGED <<idxChunks, sourceFile, batchStart, denseEmbeddings,
                 sparseEmbeddings, denseRecords, sparseRecords, requestLog,
                 denseStore, sparseStore, storesAtCall,
                 chunkVars, extractVars, fusionVars, hybridVars, commandVars>>

DenseEmbedRequest ==
  Issue("denseEmbeddings", "dense embed", texts, denseEmbedBatchSize)

DenseEmbedResponse(shape) ==
  /\ pc = "denseEmbeddings"
  /\ inflight # <<>>
  /\ IF shape = "rejected" THEN Fail("dense embed")
     ELSE /\ denseEmbeddings' = denseEmbeddings \o denseOf(DenseData(inflight[1].batch, shape))
          /\ batchStart' = batchStart + denseEmbedBatchSize
          /\ inflight' = Tail(inflight)
          /\ UNCHANGED <<pc, idxChunks, sourceFile, sparseEmbeddings, denseRecords,
                         sparseRecords, requestLog, denseStore, sparseStore,
                         storesAtCall, indexResult,
                         chunkVars, extractVars, fusionVars, hybridVars, commandVars>>

\* a batch loop has ended: the next stage begins
EndOf(stage, all, next) ==
  /\ pc = stage
  /\ inflight = <<>>
  /\ batchStart >= Len(all)
  /\ pc' = next
  /\ batchStart' = 0
  /\ UNCHANGED <<idxChunks, sourceFile, denseEmbeddings, sparseEmbeddings,
                 denseRecords, sparseRecords, inflight, requestLog, denseStore,
                 sparseStore, storesAtCall, indexResult,
                 chunkVars, extractVars, fusionVars, hybridVars, commandVars>>

DenseEmbedDone == EndOf("denseEmbeddings", texts, "sparseEmbeddings")

SparseEmbedRequest ==
  Issue("sparseEmbeddings", "sparse embed", texts, sparseEmbedBatchSize)

SparseEmbedResponse(shape) ==
  /\ pc = "sparseEmbeddings"
  /\ inflight # <<>>
  /\ IF shape = "rejected" THEN Fail("sparse embed")
     ELSE /\ sparseEmbeddings' = sparseEmbeddings \o sparseOf(SparseData(inflight[1].batch, shape))
          /\ batchStart' = batchStart + sparseEmbedBatchSize
          /\ inflight' = Tail(inflight)
          /\ UNCHANGED <<pc, idxChunks, sourceFile, denseEmbeddings, denseRecords,
                         sparseRecords, requestLog, denseStore, sparseStore,
                         storesAtCall, indexResult,
                         chunkVars, extractVars, fusionVars, hybridVars, commandVars>>

SparseEmbedDone == EndOf("sparseEmbeddings", texts, "createRecords")

\* createRecordsFromChunks, called by indexChunks
CreateRecordsFromChunks ==
  /\ pc = "createRecords"
  /\ IF ~lengthsAgree(idxChunks, denseEmbeddings, sparseEmbeddings)
     THEN /\ pc' = "indexFailed"
          /\ indexResult' = Rejected("Chunks and embeddings arrays must have the same length")
          /\ UNCHANGED <<denseRecords, sparseRecords>>
     ELSE IF ~readable(idxChunks, denseEmbeddings, sparseEmbeddings)
     THEN /\ pc' = "indexFailed"
          /\ indexResult' = Rejected("TypeError")
          /\ UNCHANGED <<denseRecords, sparseRecords>>
     ELSE /\ denseRecords' = denseRecordsOf(idxChunks, sourceFile, denseEmbeddings)
          /\ sparseRecords' = sparseRecordsOf(idxChunks, sourceFile, sparseEmbeddings)
          /\ pc' = "denseUpsert"
          /\ UNCHANGED indexResult
  /\ UNCHANGED <<idxChunks, sourceFile, batchStart, denseEmbeddings,
                 sparseEmbeddings, inflight, requestLog, denseStore, sparseStore,
                 storesAtCall, chunkVars, extractVars, fusionVars, hybridVars, commandVars>>

DenseUpsertRequest ==
  Issue("denseUpsert", "dense upsert", denseRecords, denseUpsertBatchSize)

DenseUpsertResponse(ok) ==
  /\ pc = "denseUpsert"
  /\ inflight # <<>>
  /\ IF ~ok THEN Fail("dense upsert")
     ELSE /\ denseStore' = upsert(denseStore, inflight[1].batch)
          /\ batchStart' = batchStart + denseUpsertBatchSize
          /\ inflight' = Tail(inflight)
          /\ UNCHANGED <<pc, idxChunks, sourceFile, denseEmbeddings, sparseEmbeddings,
                         denseRecords, sparseRecords, requestLog, sparseStore,
                         storesAtCall, indexResult,
                         chunkVars, extractVars, fusionVars, hybridVars, commandVars>>

DenseUpsertDone == EndOf("denseUpsert", denseRecords, "sparseUpsert")

SparseUpsertRequest ==
  Issue("sparseUpsert", "sparse upsert", pineconeRecords(sparseRecords),
        sparseUpsertBatchSize)

SparseUpsertResponse(ok) ==
  /\ pc = "sparseUpsert"
  /\ inflight # <<>>
  /\ IF ~ok THEN Fail("sparse upsert")
     ELSE /\ sparseStore' = upsert(sparseStore, inflight[1].batch)
          /\ batchStart' = batchStart + sparseUpsertBatchSize
          /\ inflight' = Tail(inflight)
          /\ UNCHANGED <<pc, idxChunks, sourceFile, denseEmbeddings, sparseEmbeddings,
                         denseRecords, sparseRecords, requestLog, denseStore,
                         storesAtCall, indexResult,
                         chunkVars, extractVars, fusionVars, hybridVars, commandVars>>

\* the last loop has ended: indexChunks resolves to the two counts
SparseUpsertDone ==
  /\ pc = "sparseUpsert"
  /\ inflight = <<>>
  /\ batchStart >= Len(pineconeRecords(sparseRecords))
  /\ pc' = "indexed"
  /\ indexResult' = Resolved(Len(denseRecords), Len(sparseRecords))
  /\ UNCHANGED <<idxChunks, sourceFile, batchStart, denseEmbeddings,
                 sparseEmbeddings, denseRecords, sparseRecords, inflight,
                 requestLog, denseStore, sparseStore, storesAtCall,
                 chunkVars, extractVars, fusionVars, hybridVars, commandVars>>

InitIndex ==
  /\ pc = "index"
  /\ idxChunks \in {ChunksOf(n) : n \in ChunkCounts}
  /\ sourceFile \in SourceFiles
  /\ storesAtCall \in StoresAtCall
  /\ denseStore = storesAtCall.dense
  /\ sparseStore = storesAtCall.sparse
  /\ IndexStart
  /\ ChunkIdle
  /\ ExtractIdle
  /\ FusionIdle
  /\ HybridIdle
  /\ CommandIdle

NextIndex ==
  \/ IndexChunks
  \/ DenseEmbedRequest
  \/ \E shape \in EmbedShapes : DenseEmbedResponse(shape)
  \/ DenseEmbedDone
  \/ SparseEmbedRequest
  \/ \E shape \in EmbedShapes : SparseEmbedResponse(shape)
  \/ SparseEmbedDone
  \/ CreateRecordsFromChunks
  \/ DenseUpsertRequest
  \/ \E ok \in BOOLEAN : DenseUpsertResponse(ok)
  \/ DenseUpsertDone
  \/ SparseUpsertRequest
  \/ \E ok \in BOOLEAN : SparseUpsertResponse(ok)
  \/ SparseUpsertDone

\* one call of indexChunks, over every response of the backend
SpecIndex == InitIndex /\ [][NextIndex]_vars

(* ----------------------------- indexCommand --------------------------- *)

\* the file lists findSupportedFiles can return, as the base names of the
\* files (two files of different directories can have one base name)
FileLists == SeqUpTo(SourceFiles, 2)

\* the numbers of chunks chunkDocument gives for a file
FileChunkCounts == {0, 1, 2}

\* indexCommand up to the await of the first deleteAll: without a file it
\* returns before anything is cleared
FindSupportedFiles ==
  /\ pc = "indexCommand"
  /\ IF Len(files) = 0
     THEN /\ pc' = "commandReturned"
          /\ UNCHANGED <<inflight, requestLog>>
     ELSE /\ pc' = "clearDense"
          /\ inflight' = <<Request("dense deleteAll", <<>>)>>
          /\ requestLog' = Append(requestLog, Request("dense deleteAll", <<>>))
  /\ UNCHANGED <<idxChunks, sourceFile, batchStart, denseEmbeddings,
                 sparseEmbeddings, denseRecords, sparseRecords, denseStore,
                 sparseStore, storesAtCall, indexResult, commandVars,
                 chunkVars, extractVars, fusionVars, hybridVars>>

\* clearAllIndexes, first try block: deleteAll on the dense index answers; a
\* failure is logged and the second try block follows in either case
ClearDenseIndex(ok) ==
  /\ pc = "clearDense"
  /\ denseStore' = IF ok THEN {} ELSE denseStore
  /\ cleared' = [cleared EXCEPT !.dense = IF ok THEN "ok" ELSE "failed"]
  /\ inflight' = <<Request("sparse deleteAll", <<>>)>>
  /\ requestLog' = Append(requestLog, Request("sparse deleteAll", <<>>))
  /\ pc' = "clearSparse"
  /\ UNCHANGED <<idxChunks, sourceFile, batchStart, denseEmbeddings,
                 sparseEmbeddings, denseRecords, sparseRecords, sparseStore,
                 storesAtCall, indexResult, files, fileIndex, totalChunks,
                 successCount, errorCount, fileOutcomes, storesAtRun,
                 chunkVars, extractVars, fusionVars, hybridVars>>

\* clearAllIndexes, second try block: deleteAll on the sparse index answers;
\* clearAllIndexes resolves in either case and the loop over the files starts
ClearSparseIndex(ok) ==
  /\ pc = "clearSparse"
  /\ sparseStore' = IF ok THEN {} ELSE sparseStore
  /\ cleared' = [cleared EXCEPT !.sparse = IF ok THEN "ok" ELSE "failed"]
  /\ inflight' = <<>>
  /\ pc' = "files"
  /\ UNCHANGED <<idxChunks, sourceFile, batchStart, denseEmbeddings,
                 sparseEmbeddings, denseRecords, sparseRecords, requestLog,
                 denseStore, storesAtCall, indexResult, files, fileIndex,
                 totalChunks, successCount, errorCount, fileOutcomes,
                 storesAtRun, chunkVars, extractVars, fusionVars, hybridVars>>

\* the loop goes on to the next file
NextFile(outcome) ==
  /\ fileIndex' = fileIndex + 1
  /\ fileOutcomes' = Append(fileOutcomes, outcome)
  /\ pc' = "files"

\* loop body: convertDocument or chunkDocument throws, the catch counts it
ConvertDocumentFails ==
  /\ pc = "files"
  /\ fileIndex < Len(files)
  /\ errorCount' = errorCount + 1
  /\ NextFile("error")
  /\ UNCHANGED <<indexVars, files, totalChunks, successCount, cleared,
                 storesAtRun, chunkVars, extractVars, fusionVars, hybridVars>>

\* loop body: chunkDocument returns no chunk, `continue`
NoContent ==
  /\ pc = "files"
  /\ fileIndex < Len(files)
  /\ NextFile("empty")
  /\ UNCHANGED <<indexVars, files, totalChunks, successCount, errorCount,
                 cleared, storesAtRun, chunkVars, extractVars, fusionVars,
                 hybridVars>>

\* loop body: chunkDocument returns n chunks and indexChunks is called with
\* them and the base name of the file
CallIndexChunks(n) ==
  /\ pc = "files"
  /\ fileIndex < Len(files)
  /\ n > 0
  /\ idxChunks' = ChunksOf(n)
  /\ sourceFile' = files[fileIndex + 1]
  /\ storesAtCall' = [dense |-> denseStore, sparse |-> sparseStore]
  /\ batchStart' = 0
  /\ denseEmbeddings' = <<>>
  /\ sparseEmbeddings' = <<>>
  /\ denseRecords' = <<>>
  /\ sparseRecords' = <<>>
  /\ indexResult' = NoResult
  /\ pc' = "index"
  /\ UNCHANGED <<inflight, requestLog, denseStore, sparseStore, commandVars,
                 chunkVars, extractVars, fusionVars, hybridVars>>

\* loop body: indexChunks has resolved
IndexChunksResolved ==
  /\ pc = "indexed"
  /\ fileIndex < Len(files)
  /\ totalChunks' = totalChunks + Len(idxChunks)
  /\ successCount' = successCount + 1
  /\ NextFile("indexed")
  /\ UNCHANGED <<indexVars, files, errorCount, cleared, storesAtRun,
                 chunkVars, extractVars, fusionVars, hybridVars>>

\* loop body: indexChunks has rejected, the catch counts it
IndexChunksRejected ==
  /\ pc = "indexFailed"
  /\ fileIndex < Len(files)
  /\ errorCount' = errorCount + 1
  /\ NextFile("error")
  /\ UNCHANGED <<indexVars, files, totalChunks, successCount, cleared,
                 storesAtRun, chunkVars, extractVars, fusionVars, hybridVars>>

\* after the loop: the summary is printed with successCount, files.length,
\* totalChunks and errorCount (getIndexStats only reads)
Summary ==
  /\ pc = "files"
  /\ fileIndex = Len(files)
  /\ pc' = "commandDone"
  /\ UNCHANGED <<indexVars, commandVars, chunkVars, extractVars, fusionVars,
                 hybridVars>>

InitCommand ==
  /\ pc = "indexCommand"
  /\ files \in FileLists
  /\ storesAtRun \in StoresAtCall
  /\ denseStore = storesAtRun.dense
  /\ sparseStore = storesAtRun.sparse
  /\ storesAtCall = storesAtRun
  /\ idxChunks = <<>>
  /\ sourceFile = <<>>
  /\ IndexStart
  /\ CommandStart
  /\ ChunkIdle
  /\ ExtractIdle
  /\ FusionIdle
  /\ HybridIdle

NextCommand ==
  \/ FindSupportedFiles
  \/ \E ok \in BOOLEAN : ClearDenseIndex(ok)
  \/ \E ok \in BOOLEAN : ClearSparseIndex(ok)
  \/ ConvertDocumentFails
  \/ NoContent
  \/ \E n \in FileChunkCounts : CallIndexChunks(n)
  \/ IndexChunksResolved
  \/ IndexChunksRejected
  \/ Summary
  \/ NextIndex

\* one run of the index command, over every file list, every outcome per
\* file and every response of the backend
SpecCommand == InitCommand /\ [][NextCommand]_vars

(* ======================= properties of the chunker ===================== *)

\* a string without its whitespace characters
Strip(s) == SelectSeq(s, LAMBDA ch : ch \notin WS)

RECURSIVE IsSubsequence(_, _)
\* a can be obtained from b by deleting characters
IsSubsequence(a, b) ==
  IF a = <<>> THEN TRUE
  ELSE IF b = <<>> THEN FALSE
  ELSE IF Head(a) = Head(b) THEN IsSubsequence(Tail(a), Tail(b))
  ELSE IsSubsequence(a, Tail(b))

\* a occurs in b as a block of consecutive characters
IsSubstring(a, b) ==
  \E i \in 0..(Len(b) - Len(a)) : SubSeq(b, i + 1, i + Len(a)) = a

RECURSIVE Concat(_)
\* concatenation of a sequence of strings, in order
Concat(ss) == IF ss = <<>> THEN <<>> ELSE Head(ss) \o Concat(Tail(ss))

IsBody(item) == ~item.isHeading /\ item.label # "table"
IsTable(item) == ~item.isHeading /\ item.label = "table"

\* the texts of the returned chunks, concatenated in order
ChunkTexts == Concat([i \in 1..Len(chunks) |-> chunks[i].text])

\* C1: when chunkDocument has returned, every character of every body item
\* (not a heading, not a table) is in the concatenated chunk texts, whitespace
\* ignored: the item's text is a subsequence of the concatenation.
C1_NoBodyTextDropped ==
  pc = "returned" =>
    \A i \in 1..Len(items) :
      IsBody(items[i]) => IsSubsequence(Strip(items[i].text), Strip(ChunkTexts))

\* C2: when chunkDocument has returned, every chunk built from non-table
\* items is at most maxChunkSize characters long.
C2_ChunksWithinMaxSize ==
  pc = "returned" =>
    \A c \in 1..Len(chunks) :
      chunks[c].itemTypes # {"table"} => Len(chunks[c].text) <= opts.maxChunkSize

\* C3: every table item read so far has exactly one chunk, whose text is the
\* table's text, whose itemTypes is {"table"} and which comes from no other
\* item; and a chunk with "table" among its itemTypes has no other type.
C3_TablesStandAlone ==
  /\ \A i \in 1..Len(items) :
       IsTable(items[i]) =>
         LET of == {c \in 1..Len(chunks) : i \in chunks[c].sourceItems}
         IN /\ Cardinality(of) = 1
            /\ \A c \in of : /\ chunks[c].text = items[i].text
                             /\ chunks[c].itemTypes = {"table"}
                             /\ chunks[c].sourceItems = {i}
  /\ \A c \in 1..Len(chunks) :
       "table" \in chunks[c].itemTypes => chunks[c].itemTypes = {"table"}

\* C3 witness: a table longer than maxChunkSize was read between two body
\* items that each became a chunk
C3_Witness ==
  /\ pc = "returned"
  /\ Len(items) = 3
  /\ IsBody(items[1]) /\ IsTable(items[2]) /\ IsBody(items[3])
  /\ Len(items[2].text) > opts.maxChunkSize
  /\ Len(chunks) = 3

\* C4: the chunkIndex values of the returned list are 0..n-1 in list order.
C4_ChunkIndexDense ==
  pc = "returned" => \A c \in 1..Len(chunks) : chunks[c].chunkIndex = c - 1

\* C4 witness: a returned list that holds a table chunk and two chunks cut
\* from one accumulated text
C4_Witness ==
  /\ pc = "returned"
  /\ \E c \in 1..Len(chunks) : chunks[c].itemTypes = {"table"}
  /\ \E c, e \in 1..Len(chunks) :
       c < e /\ chunks[c].sourceItems = chunks[e].sourceItems
  /\ \A c \in 1..Len(chunks) : chunks[c].chunkIndex = c - 1

\* C5: every returned chunk has a text that is non-empty after trimming.
C5_ChunkTextNonEmpty ==
  pc = "returned" => \A c \in 1..Len(chunks) : trim(chunks[c].text) # <<>>

\* the chunk holds the whole (trimmed, non-empty) text of body item i
HoldsBodyOf(c, i) ==
  /\ i \in chunks[c].sourceItems
  /\ IsBody(items[i])
  /\ trim(items[i].text) # <<>>
  /\ IsSubstring(trim(items[i].text), chunks[c].text)

\* C6: the headings of every chunk are the heading context that was active
\* when the body text the chunk holds was read.
C6_HeadingsOfBodyText ==
  \A c \in 1..Len(chunks) : \A i \in 1..Len(items) :
    HoldsBodyOf(c, i) => chunks[c].headings = readCtx[i].headings

\* C6 as amended: the headings of a chunk are the heading context active when
\* a body item accumulated into it was read, unless a later heading was read
\* into the same accumulated text because that text was then shorter than
\* minChunkSize.
C6_HeadingsOfBodyUnlessMerged ==
  \A c \in 1..Len(chunks) : \A i \in chunks[c].sourceItems :
    IsBody(items[i]) =>
      \/ chunks[c].headings = readCtx[i].headings
      \/ \E j \in chunks[c].sourceItems :
           /\ j > i
           /\ items[j].isHeading
           /\ readCtx[j].accLen < opts.minChunkSize

\* C6 witness: a heading read after a body item found at least minChunkSize
\* characters accumulated, and the body item's chunk keeps the context the
\* body was read in, not the one the heading set
C6_Witness ==
  \E c \in 1..Len(chunks) : \E i, j \in 1..Len(items) :
    /\ HoldsBodyOf(c, i)
    /\ j = i + 1
    /\ items[j].isHeading
    /\ readCtx[j].accLen >= opts.minChunkSize
    /\ j \notin chunks[c].sourceItems
    /\ chunks[c].headings = readCtx[i].headings
    /\ chunks[c].headings # currentHeadings

(* ===================== properties of the extraction ==================== *)

\* C7: when extractItemsInOrder has returned, no text or table node of the
\* document (a collection and an index in it) is in the item sequence twice.
C7_EachNodeAtMostOnce ==
  pc = "extracted" =>
    \A i, j \in 1..Len(extracted) :
      i # j => parseRef(extracted[i].ref) # parseRef(extracted[j].ref)

(* ===================== properties of the rank fusion =================== *)

IdsOf(results) == {results[i].id : i \in 1..Len(results)}

\* the 0-based positions of id in a result list
RanksOf(results, id) == {r \in 0..(Len(results) - 1) : results[r + 1].id = id}

RECURSIVE ShareSum(_, _)
\* sum of 1 / (k + r + 1), in units of 1 / ScoreUnit(k), over the ranks r
ShareSum(ranks, k) ==
  IF ranks = {} THEN 0
  ELSE LET r == CHOOSE x \in ranks : TRUE
       IN (ScoreUnit(k) \div (k + r + 1)) + ShareSum(ranks \ {r}, k)

\* C8: the fused list holds every id of either input exactly once, no other
\* id, and its scores do not increase from one element to the next.
C8_FusedIdsOnceAndSorted ==
  pc = "fused" =>
    /\ IdsOf(mergedResults) = IdsOf(denseResults) \cup IdsOf(sparseResults)
    /\ \A i, j \in 1..Len(mergedResults) :
         i # j => mergedResults[i].id # mergedResults[j].id
    /\ \A i \in 1..(Len(mergedResults) - 1) :
         mergedResults[i].score >= mergedResults[i + 1].score

\* C8 witness: an id is twice in the dense list and also in the sparse list,
\* and the fused list starts with an id that is not the first one of either
\* input
C8_Witness ==
  /\ pc = "fused"
  /\ \E id \in IdsOf(sparseResults) : Cardinality(RanksOf(denseResults, id)) = 2
  /\ Len(mergedResults) >= 2
  /\ mergedResults[1].id # denseResults[1].id

\* C9: the fused score of every returned id is the sum of 1 / (k + r + 1)
\* over the positions r of the id in the dense list, plus the same sum over
\* the sparse list (scores counted in units of 1 / ScoreUnit(k)).
C9_FusedScoreIsRankSum ==
  pc = "fused" =>
    \A i \in 1..Len(mergedResults) :
      LET id == mergedResults[i].id
      IN /\ \A r \in 0..(MaxResults - 1) :
              (ScoreUnit(rrfK) \div (rrfK + r + 1)) * (rrfK + r + 1) = ScoreUnit(rrfK)
         /\ mergedResults[i].score =
              ShareSum(RanksOf(denseResults, id), rrfK)
              + ShareSum(RanksOf(sparseResults, id), rrfK)

\* C9 witness: a fused id that is at two positions of the dense list and at
\* one of the sparse list
C9_Witness ==
  /\ pc = "fused"
  /\ \E i \in 1..Len(mergedResults) :
       /\ Cardinality(RanksOf(denseResults, mergedResults[i].id)) = 2
       /\ Cardinality(RanksOf(sparseResults, mergedResults[i].id)) = 1

\* C10: a fused result is "hybrid" exactly when its id is in both input
\* lists, "dense" when it is in the dense list only and "sparse" when it is
\* in the sparse list only.
C10_ProvenanceBySourceLists ==
  pc = "fused" =>
    \A i \in 1..Len(mergedResults) :
      LET id == mergedResults[i].id
          inDense == id \in IdsOf(denseResults)
          inSparse == id \in IdsOf(sparseResults)
      IN /\ mergedResults[i].source = "hybrid" <=> (inDense /\ inSparse)
         /\ (inDense /\ ~inSparse) => mergedResults[i].source = "dense"
         /\ (~inDense /\ inSparse) => mergedResults[i].source = "sparse"

\* C10 witness: one fused list with an id that is twice in the dense list
\* only, an id twice in the sparse list only, and an id in both
C10_Witness ==
  /\ pc = "fused"
  /\ \E m \in 1..Len(mergedResults) :
       /\ mergedResults[m].source = "dense"
       /\ Cardinality(RanksOf(denseResults, mergedResults[m].id)) = 2
  /\ \E m \in 1..Len(mergedResults) :
       /\ mergedResults[m].source = "sparse"
       /\ Cardinality(RanksOf(sparseResults, mergedResults[m].id)) = 2
  /\ \E m \in 1..Len(mergedResults) : mergedResults[m].source = "hybrid"

\* the ids of a result list, in order
IdSeq(results) == [i \in 1..Len(results) |-> results[i].id]

\* the example of C11: dense list [x, y], sparse list [y], k = 60
C11_Input ==
  /\ IdSeq(denseResults) = <<"x", "y">>
  /\ IdSeq(sparseResults) = <<"y">>
  /\ rrfK = 60

\* C11: on dense [x, y], sparse [y], k = 60 the fused list is y then x, y has
\* the score 1/61 + 1/61 and is hybrid, x has the score 1/61 and is dense.
C11_ExampleAsStated ==
  (pc = "fused" /\ C11_Input) =>
    /\ IdSeq(mergedResults) = <<"y", "x">>
    /\ mergedResults[1].score * 61 = 2 * ScoreUnit(60)
    /\ mergedResults[2].score * 61 = ScoreUnit(60)
    /\ mergedResults[1].source = "hybrid"
    /\ mergedResults[2].source = "dense"

\* C11 as amended: on the same input the fused list is y then x, y has the
\* score 1/62 + 1/61 (y is at rank 1 of the dense list) and is hybrid, x has
\* the score 1/61 and is dense.
C11_Example ==
  (pc = "fused" /\ C11_Input) =>
    /\ IdSeq(mergedResults) = <<"y", "x">>
    /\ mergedResults[1].score * (61 * 62) = (61 + 62) * ScoreUnit(60)
    /\ mergedResults[2].score * 61 = ScoreUnit(60)
    /\ mergedResults[1].source = "hybrid"
    /\ mergedResults[2].source = "dense"

\* C11 witness: the fusion of the example has returned
C11_Witness == pc = "fused" /\ C11_Input /\ Len(mergedResults) = 2

NoRepeat(results) ==
  \A i, j \in 1..Len(results) : i # j => results[i].id # results[j].id

\* C12: two lists of the same length N with no id in common fuse into
\* exactly 2N results, none of them hybrid.
C12_DisjointListsGive2N ==
  (/\ pc = "fused"
   /\ Len(denseResults) = Len(sparseResults)
   /\ IdsOf(denseResults) \cap IdsOf(sparseResults) = {}) =>
    /\ Len(mergedResults) = 2 * Len(denseResults)
    /\ \A i \in 1..Len(mergedResults) : mergedResults[i].source # "hybrid"

\* C12 as amended: two lists of the same length N with no id in common, and
\* no id repeated within a list, fuse into exactly 2N results, none hybrid.
C12_DisjointDistinctListsGive2N ==
  (/\ pc = "fused"
   /\ Len(denseResults) = Len(sparseResults)
   /\ IdsOf(denseResults) \cap IdsOf(sparseResults) = {}
   /\ NoRepeat(denseResults) /\ NoRepeat(sparseResults)) =>
    /\ Len(mergedResults) = 2 * Len(denseResults)
    /\ \A i \in 1..Len(mergedResults) : mergedResults[i].source # "hybrid"

\* C12 witness: two disjoint lists of two distinct ids each have been fused
C12_Witness ==
  /\ pc = "fused"
  /\ Len(denseResults) = 2 /\ Len(sparseResults) = 2
  /\ IdsOf(denseResults) \cap IdsOf(sparseResults) = {}
  /\ NoRepeat(denseResults) /\ NoRepeat(sparseResults)
  /\ Len(mergedResults) = 4

\* what C13 compares of a fused list: ids in order, fused scores, provenance
RankView(results) ==
  [i \in 1..Len(results) |->
     [id |-> results[i].id, score |-> results[i].score, source |-> results[i].source]]

\* the list with the same ids at the same positions and other scores: the
\* scores grow with the position and are those of no list of the universe
Rescored(results, source) ==
  [i \in 1..Len(results) |->
     [id |-> results[i].id, metadata |-> results[i].metadata,
      score |-> 7 * i + 3, source |-> source]]

\* C13: the fused list (ids, order, fused scores, provenance) is the same for
\* every pair of input lists with the same ids at the same positions, whatever
\* their scores: the fusion of the same two lists with other scores gives the
\* list that was returned, so all scorings of the same ids agree.
C13_DependsOnRanksOnly ==
  pc = "fused" =>
    RankView(reciprocalRankFusion(Rescored(denseResults, "dense"),
                                  Rescored(sparseResults, "sparse"), rrfK))
      = RankView(mergedResults)

\* C13 witness: two lists that score the same id differently have been fused,
\* and the id the dense list scores lowest is the first of the fused list
C13_Witness ==
  /\ pc = "fused"
  /\ Len(denseResults) >= 2 /\ Len(sparseResults) >= 2
  /\ denseResults[1].score = 2 * sparseResults[1].score
  /\ denseResults[Len(denseResults)].id = sparseResults[1].id
  /\ mergedResults[1].id = sparseResults[1].id

(* ===================== properties of hybridSearch ====================== *)

\* the rerank request of this call has been answered
Reranked == pc = "done" /\ calls["rerank"] = "ok"

\* C14: every result returned by rerank has the id and the metadata of one of
\* the candidates it was given, has provenance hybrid, and carries the score
\* the service returned for the index of that candidate.
C14_RerankOnlyRescores ==
  Reranked =>
    \A n \in 1..Len(hybridResults) :
      /\ hybridResults[n].source = "hybrid"
      /\ \E m \in 1..Len(rerankResponse) :
           LET item == rerankResponse[m]
           IN /\ item.index \in 0..(Len(candidatesForRerank) - 1)
              /\ hybridResults[n].id = candidatesForRerank[item.index + 1].id
              /\ hybridResults[n].metadata = candidatesForRerank[item.index + 1].metadata
              /\ hybridResults[n].score = item.score

\* C14 witness: the service answered with an index that is no candidate and
\* with the candidates in another order, and a result was returned
C14_Witness ==
  /\ Reranked
  /\ Len(hybridResults) >= 1
  /\ \E m \in 1..Len(rerankResponse) :
       rerankResponse[m].index \notin 0..(Len(candidatesForRerank) - 1)
  /\ hybridResults[1].id # candidatesForRerank[1].id

\* C15: with rerank disabled hybridSearch returns the first topK results of
\* the fused list, in fused order, hence at most topK, and no request is ever
\* issued to the rerank service.
C15_NoRerankFirstTopK ==
  ~hybridOptions.rerank =>
    /\ issued["rerank"] = 0
    /\ calls["rerank"] = "none"
    /\ pc = "done" =>
         /\ Len(hybridResults) <= hybridOptions.topK
         /\ Len(hybridResults) = Min({hybridOptions.topK, Len(mergedResults)})
         /\ \A n \in 1..Len(hybridResults) : hybridResults[n] = mergedResults[n]

\* C15 witness: rerank disabled, and the fused list is longer than topK
C15_Witness ==
  /\ ~hybridOptions.rerank
  /\ pc = "done"
  /\ Len(mergedResults) > hybridOptions.topK
  /\ Len(hybridResults) = hybridOptions.topK

\* C16: with rerank enabled hybridSearch returns at most rerankTopN results
\* when rerankTopN is given and at most topK otherwise, whatever the rerank
\* service answers.
C16_AtMostTopN ==
  (pc = "done" /\ hybridOptions.rerank) =>
    Len(hybridResults) <=
      (IF hybridOptions.rerankTopN.given THEN hybridOptions.rerankTopN.value
       ELSE hybridOptions.topK)

\* C17: no search request is issued before both embedding requests have
\* succeeded, fusion and the rerank request do not happen before both search
\* requests have succeeded, and no search request is ever issued when an
\* embedding request has failed.
C17_StagesInOrder ==
  /\ \A c \in {"denseSearch", "sparseSearch"} :
       issued[c] > 0 => calls["denseEmbed"] = "ok" /\ calls["sparseEmbed"] = "ok"
  /\ (mergedResults # <<>> \/ issued["rerank"] > 0 \/ pc \in {"reranking", "done"})
       => calls["denseSearch"] = "ok" /\ calls["sparseSearch"] = "ok"
  /\ (calls["denseEmbed"] = "failed" \/ calls["sparseEmbed"] = "failed")
       => /\ issued["denseSearch"] = 0 /\ issued["sparseSearch"] = 0
          /\ calls["denseSearch"] = "none" /\ calls["sparseSearch"] = "none"

\* C17 witness: the fusion of two non-empty search results has happened
C17_Witness ==
  /\ pc \in {"reranking", "done"}
  /\ denseResults # <<>> /\ sparseResults # <<>>
  /\ mergedResults # <<>>

\* C18: hybridSearch never returns nor fails to its caller while a branch of
\* one of its two joins is still in flight.
C18_NoExitWhileInFlight ==
  pc \in {"done", "failed"} => \A c \in CallNames : calls[c] # "inflight"

\* the other branch of the join a call belongs to
Sibling(c) ==
  CASE c = "denseEmbed" -> "sparseEmbed"
    [] c = "sparseEmbed" -> "denseEmbed"
    [] c = "denseSearch" -> "sparseSearch"
    [] c = "sparseSearch" -> "denseSearch"

\* C18 as amended: hybridSearch never goes on to the next step and never
\* returns a result while a branch of a join is in flight; it fails to its
\* caller while a branch is in flight exactly when the other branch of that
\* join has failed.
C18_NoProgressWhileInFlight ==
  /\ pc \in {"searching", "reranking", "done"}
       => calls["denseEmbed"] = "ok" /\ calls["sparseEmbed"] = "ok"
  /\ pc \in {"reranking", "done"}
       => calls["denseSearch"] = "ok" /\ calls["sparseSearch"] = "ok"
  /\ pc = "done" => \A c \in CallNames : calls[c] # "inflight"
  /\ pc = "failed" =>
       \A c \in CallNames : calls[c] = "inflight" =>
         c # "rerank" /\ calls[Sibling(c)] = "failed"

\* C18 witness: hybridSearch has failed while a branch is still in flight
C18_Witness ==
  /\ pc = "failed"
  /\ calls["denseSearch"] = "failed"
  /\ calls["sparseSearch"] = "inflight"

\* C19: when one of the five calls has failed hybridSearch has failed and
\* has returned no result list, and each call is issued at most once.
C19_FailureFailsTheSearch ==
  /\ (\E c \in CallNames : calls[c] = "failed") =>
       pc = "failed" /\ hybridResults = <<>>
  /\ \A c \in CallNames : issued[c] <= 1

\* C19 witness: the rerank request has failed after two successful searches
\* that found something
C19_Witness ==
  /\ calls["rerank"] = "failed"
  /\ candidatesForRerank # <<>>
  /\ pc = "failed"

(* ====================== properties of indexChunks ====================== *)

\* both embedding stages of this call have ended without a failed request
EmbeddingsObtained ==
  \/ pc \in {"createRecords", "denseUpsert", "sparseUpsert", "indexed"}
       /\ Len(idxChunks) > 0
  \/ pc = "indexFailed" /\ indexResult.error \notin {"dense embed", "sparse embed"}

UpsertsIssued ==
  {n \in 1..Len(requestLog) : requestLog[n].api \in {"dense upsert", "sparse upsert"}}

\* C20: when the number of dense embeddings or of sparse embeddings obtained
\* differs from the number of chunks, indexChunks fails with the length
\* error, no upsert request is issued, and both stores are as they were when
\* it was called.
C20_MismatchFailsBeforeUpsert ==
  (/\ EmbeddingsObtained
   /\ \/ Len(denseEmbeddings) # Len(idxChunks)
      \/ Len(sparseEmbeddings) # Len(idxChunks)) =>
    /\ pc \in {"createRecords", "indexFailed"}
    /\ pc = "indexFailed" =>
         /\ indexResult.status = "rejected"
         /\ indexResult.error = "Chunks and embeddings arrays must have the same length"
    /\ UpsertsIssued = {}
    /\ denseStore = storesAtCall.dense
    /\ sparseStore = storesAtCall.sparse

\* C20 witness: indexChunks has failed on a dense entry without values in
\* the second batch of embeddings, over a namespace that held records
C20_Witness ==
  /\ pc = "indexFailed"
  /\ indexResult.error = "Chunks and embeddings arrays must have the same length"
  /\ Len(denseEmbeddings) = Len(idxChunks) - 1
  /\ Len(idxChunks) > denseEmbedBatchSize
  /\ storesAtCall.dense # {}

\* createRecordsFromChunks has returned the records of this call
RecordsBuilt == denseRecords # <<>>

\* C21: the dense and the sparse record of the same chunk position have the
\* same id and the same metadata, every sparse record id is a dense record
\* id, and records of different chunk positions have different ids.
C21_RecordIdsPairUp ==
  RecordsBuilt =>
    /\ \A p \in 1..Len(denseRecords) : denseRecords[p].metadata.chunk_index = p - 1
    /\ Cardinality({denseRecords[p].id : p \in 1..Len(denseRecords)})
         = Len(denseRecords)
    /\ \A s \in 1..Len(sparseRecords) :
         LET p == sparseRecords[s].metadata.chunk_index + 1
         IN /\ p \in 1..Len(denseRecords)
            /\ denseRecords[p].id = sparseRecords[s].id
            /\ denseRecords[p].metadata = sparseRecords[s].metadata
    /\ Cardinality({sparseRecords[s].id : s \in 1..Len(sparseRecords)})
         = Len(sparseRecords)

\* C21 witness: the records of a document of more than 100 chunks, one of
\* which has no sparse record
C21_Witness ==
  /\ Len(denseRecords) > denseUpsertBatchSize
  /\ Len(sparseRecords) = Len(denseRecords) - 1

IdsIn(store) == {r.id : r \in store}

\* this call indexes the file "a" of two chunks again, over what an earlier
\* run of it left
SecondRun ==
  /\ sourceFile = <<"a">>
  /\ Len(idxChunks) = 2
  /\ storesAtCall.dense = EarlierDense

\* C22: indexing the same file with the same number of chunks a second time
\* leaves each store with the ids the first run left, one record per id: no
\* state of the second run holds another id.
C22_ReindexOverwrites ==
  SecondRun =>
    /\ IdsIn(denseStore) = IdsIn(storesAtCall.dense)
    /\ IdsIn(sparseStore) = IdsIn(storesAtCall.sparse)
    /\ Cardinality(denseStore) = Cardinality(IdsIn(denseStore))
    /\ Cardinality(sparseStore) = Cardinality(IdsIn(sparseStore))

\* C22 witness: the second run has ended and has replaced the records
C22_Witness ==
  /\ SecondRun
  /\ pc = "indexed"
  /\ denseStore # storesAtCall.dense
  /\ sparseStore # storesAtCall.sparse

\* C23: the embedding arrays stay aligned with the chunks (the entry at a
\* position is the embedding of the text at that position, or the explicit
\* empty entry for an absent sparse vector), and the record of a chunk with
\* an empty sparse vector is still there when the records reach the sparse
\* upsert step.
C23_AlignedUntilUpsert ==
  /\ (EmbeddingsObtained /\ pc # "createRecords") =>
       \/ pc = "indexFailed"
       \/ /\ Len(sparseEmbeddings) = Len(idxChunks)
          /\ \A p \in 1..Len(idxChunks) :
               /\ denseEmbeddings[p].values = denseVector(idxChunks[p].text)
               /\ sparseEmbeddings[p] \in
                    {sparseVector(idxChunks[p].text), [indices |-> <<>>, values |-> <<>>]}
  /\ RecordsBuilt => Len(sparseRecords) = Len(idxChunks)

StageRank(api) ==
  CASE api = "dense embed" -> 1 [] api = "sparse embed" -> 2
    [] api = "dense upsert" -> 3 [] api = "sparse upsert" -> 4

\* the batches of the requests of one stage, in issue order, put together
Batches(api) ==
  Concat([n \in 1..Len(SelectSeq(requestLog, LAMBDA r : r.api = api)) |->
            SelectSeq(requestLog, LAMBDA r : r.api = api)[n].batch])

IsPrefix(a, b) == Len(a) <= Len(b) /\ a = SubSeq(b, 1, Len(a))

\* the stages of this call that have ended without a failure
StagesEnded ==
  CASE pc = "sparseEmbeddings" -> {"dense embed"}
    [] pc = "createRecords" -> {"dense embed", "sparse embed"}
    [] pc = "denseUpsert" -> {"dense embed", "sparse embed"}
    [] pc = "sparseUpsert" -> {"dense embed", "sparse embed", "dense upsert"}
    [] pc = "indexed" /\ Len(idxChunks) > 0 ->
         {"dense embed", "sparse embed", "dense upsert", "sparse upsert"}
    [] OTHER -> {}

StageInput(api) ==
  CASE api = "dense embed" -> texts [] api = "sparse embed" -> texts
    [] api = "dense upsert" -> denseRecords [] api = "sparse upsert" -> sparseRecords

\* C28: at most one backend request is in flight, an embedding request has
\* at most 96 texts and an upsert request at most 100 records, the batches of
\* a stage in issue order make up its input in order, and the requests come
\* in the order dense embeddings, sparse embeddings, dense upserts, sparse
\* upserts.
C28_OneRequestAtATime ==
  /\ Len(inflight) <= 1
  /\ \A n \in 1..Len(requestLog) :
       /\ Len(requestLog[n].batch) >= 1
       /\ requestLog[n].api \in {"dense embed", "sparse embed"}
            => Len(requestLog[n].batch) <= 96
       /\ requestLog[n].api \in {"dense upsert", "sparse upsert"}
            => Len(requestLog[n].batch) <= 100
  /\ \A m, n \in 1..Len(requestLog) :
       m < n => StageRank(requestLog[m].api) <= StageRank(requestLog[n].api)
  /\ \A api \in {"dense embed", "sparse embed", "dense upsert", "sparse upsert"} :
       /\ IsPrefix(Batches(api), StageInput(api))
       /\ api \in StagesEnded => Batches(api) = StageInput(api)

\* C28 witness: a document of 101 chunks has been indexed with two requests
\* in each of the four stages
C28_Witness ==
  /\ pc = "indexed"
  /\ Len(idxChunks) > 100
  /\ Len(requestLog) = 8

\* the two search requests of this call have been answered with matches
BothFound == calls["denseSearch"] = "ok" /\ calls["sparseSearch"] = "ok"

\* C29: each backend is asked for fetchK = max(2 topK, 20) matches; when
\* reranking, the reranker is given the first min(|fused|, max(2 topK,
\* fetchK)) fused candidates, never more than fetchK, with topN = rerankTopN
\* if given and topK otherwise.
C29_FetchAndRerankSizes ==
  LET topK == hybridOptions.topK
      expected == IF 2 * topK >= 20 THEN 2 * topK ELSE 20
  IN /\ pc # "hybrid" => fetchK = expected
     /\ \A c \in {"denseSearch", "sparseSearch"} :
          issued[c] > 0 => searchTopK[c] = expected
     /\ (BothFound /\ pc # "searching" /\ hybridOptions.rerank) =>
          /\ Len(candidatesForRerank) =
               Min({Len(mergedResults),
                    IF 2 * topK >= expected THEN 2 * topK ELSE expected})
          /\ Len(candidatesForRerank) <= fetchK
          /\ \A n \in 1..Len(candidatesForRerank) :
               candidatesForRerank[n] = mergedResults[n]
          /\ rerankTopN = IF hybridOptions.rerankTopN.given
                          THEN hybridOptions.rerankTopN.value ELSE topK
          /\ issued["rerank"] = IF mergedResults = <<>> THEN 0 ELSE 1

\* C29 witness: topK = 11, the fused list has more than fetchK = 22 results
\* and the reranker has been asked about the first 22 of them
C29_Witness ==
  /\ hybridOptions.topK = 11
  /\ issued["rerank"] = 1
  /\ Len(mergedResults) > fetchK
  /\ Len(candidatesForRerank) = fetchK

\* the position of the last heading among the first n items, 0 if none
LastHeading(n) ==
  LET hs == {i \in 1..n : items[i].isHeading}
  IN IF hs = {} THEN 0 ELSE CHOOSE i \in hs : \A j \in hs : j <= i

\* the heading stack as the claim describes it after the heading at position
\* h was read on the stack before
StackAfter(before, h) ==
  IF items[h].label \in {"title", "chapter"} THEN <<items[h].text>>
  ELSE IF Len(before) >= 3
       THEN <<before[Len(before) - 1], before[Len(before)], items[h].text>>
       ELSE before \o <<items[h].text>>

\* the last of a set of positions
Last(S) == CHOOSE i \in S : \A j \in S : j <= i

\* C26: a title or chapter heading replaces the heading stack, any other
\* heading is pushed after the stack is cut to its last 2 entries when it
\* holds 3 or more; the stack and the headings of every chunk have at most 3
\* entries, and their last entry is the most recent heading (for a chunk: the
\* most recent heading up to the last item of the chunk).
C26_HeadingStack ==
  /\ Len(currentHeadings) <= 3
  /\ LET h == LastHeading(Len(items))
     IN IF h = 0 THEN currentHeadings = <<>>
        ELSE /\ currentHeadings = StackAfter(readCtx[h].headings, h)
             /\ currentHeadings[Len(currentHeadings)] = items[h].text
  /\ \A c \in 1..Len(chunks) :
       LET h == LastHeading(Last(chunks[c].sourceItems))
           hs == chunks[c].headings
       IN /\ Len(hs) <= 3
          /\ IF h = 0 THEN hs = <<>>
             ELSE /\ hs # <<>>
                  /\ hs[Len(hs)] = items[h].text

\* C26 witness: a fourth heading was pushed on a stack of three, and a chunk
\* with three headings has been emitted
C26_Witness ==
  /\ \E h \in 1..Len(items) :
       /\ items[h].isHeading
       /\ items[h].label \notin {"title", "chapter"}
       /\ Len(readCtx[h].headings) = 3
       /\ h = LastHeading(Len(items))
  /\ Len(currentHeadings) = 3
  /\ \E c \in 1..Len(chunks) : Len(chunks[c].headings) = 3

RECURSIVE PreOrder(_, _, _, _)
\* Depth-first pre-order with an explicit stack of the references still to
\* follow: the reference on top is followed unless it was followed before;
\* the node it names, if any, is emitted and the children of a text node go
\* on top of the stack, the first child topmost.
PreOrder(d, stack, followed, out) ==
  IF stack = <<>> THEN out
  ELSE LET ref == Head(stack)
           at == parseRef(ref)
       IN IF ref \in followed THEN PreOrder(d, Tail(stack), followed, out)
          ELSE IF at # Null /\ ref.type = "texts" /\ at.index < Len(d.texts)
          THEN PreOrder(d, d.texts[at.index + 1].children \o Tail(stack),
                        followed \cup {ref},
                        Append(out, [isHeading |-> isHeading(d.texts[at.index + 1].label),
                                     label |-> d.texts[at.index + 1].label,
                                     ref |-> ref,
                                     text |-> d.texts[at.index + 1].text]))
          ELSE IF at # Null /\ ref.type = "tables" /\ at.index < Len(d.tables)
          THEN PreOrder(d, Tail(stack), followed \cup {ref},
                        Append(out, [isHeading |-> FALSE,
                                     label |-> "table", ref |-> ref,
                                     text |-> tableToText(d.tables[at.index + 1])]))
          ELSE PreOrder(d, Tail(stack), followed \cup {ref}, out)

\* all entries of the text collection, then all entries of the table
\* collection, in storage order
StorageOrder(d) ==
  [i \in 1..(Len(d.texts) + Len(d.tables)) |->
     IF i <= Len(d.texts)
     THEN [isHeading |-> isHeading(d.texts[i].label), label |-> d.texts[i].label,
           ref |-> Ref("texts", <<i - 1>>),
           text |-> d.texts[i].text]
     ELSE [isHeading |-> FALSE, label |-> "table",
           ref |-> Ref("tables", <<i - Len(d.texts) - 1>>),
           text |-> tableToText(d.tables[i - Len(d.texts)])]]

\* C27: extractItemsInOrder returns the items reached from the children of
\* the body in depth-first pre-order; when, and only when, that traversal
\* reaches no item it returns the text collection followed by the table
\* collection in storage order, and never both.
C27_PreOrderOrFallback ==
  pc = "extracted" =>
    LET reached == PreOrder(doc, doc.body, {}, <<>>)
    IN /\ reached # <<>> => extracted = reached
       /\ reached = <<>> => extracted = StorageOrder(doc)

\* C27 witness: a text node with a child is followed by that child and then
\* by the next child of the body, while the storage order is another one
C27_Witness ==
  /\ pc = "extracted"
  /\ doc.body = <<Ref("texts", <<1>>), Ref("tables", <<0>>)>>
  /\ Len(doc.texts) = 2
  /\ doc.texts[2].children = <<Ref("texts", <<0>>)>>
  /\ Len(extracted) = 3
  /\ extracted[1].ref = Ref("texts", <<1>>)
  /\ extracted[2].ref = Ref("texts", <<0>>)
  /\ extracted[3].label = "table"
  /\ extracted # StorageOrder(doc)

(* ====================== properties of indexCommand ===================== *)

\* C24: a failing document does not stop the run: when the command is done
\* the loop has been through every file, and the reported success count is
\* the number of files minus the error count.
C24_SuccessIsTotalMinusErrors ==
  pc = "commandDone" =>
    /\ fileIndex = Len(files)
    /\ Len(fileOutcomes) = Len(files)
    /\ successCount = Len(files) - errorCount

\* the records of the upsert requests of the run
WrittenBy(api) ==
  UNION {{requestLog[n].batch[p] : p \in 1..Len(requestLog[n].batch)} :
           n \in {m \in 1..Len(requestLog) : requestLog[m].api = api}}

\* C25: both deleteAll requests have been issued and answered before the
\* first upsert request of the run is issued, and when the command is done
\* the two stores hold only records the run has written, whatever the
\* deleteAll requests were answered.
C25_ClearedBeforeUpserts ==
  /\ \A n \in 1..Len(requestLog) :
       requestLog[n].api \in {"dense upsert", "sparse upsert"} =>
         /\ n > 2
         /\ requestLog[1].api = "dense deleteAll"
         /\ requestLog[2].api = "sparse deleteAll"
         /\ cleared.dense # "none"
         /\ cleared.sparse # "none"
  /\ pc = "commandDone" =>
       /\ denseStore \subseteq WrittenBy("dense upsert")
       /\ sparseStore \subseteq WrittenBy("sparse upsert")

\* C30: every id of the sparse store is an id of the dense store (the stores
\* the run starts from are such)
C30_SparseIdsInDense == IdsIn(sparseStore) \subseteq IdsIn(denseStore)

=============================================================================
